---- MODULE Spec2Model ----
(***************************************************************************)
(* Ingestion pipeline of the Footballmaster API service:                   *)
(*   services/api/common/uid.py   UID generation, same-batch conflicts     *)
(*   services/api/api/dpc.py      POST /dpc/ingest                         *)
(*                                                                         *)
(* Python strings are sequences of one-character strings; the Python value *)
(* None is the one-element sequence None, which is no string.              *)
(*                                                                         *)
(*   services/api/common/normalizer.py  canonical payload                  *)
(*   services/api/common/factors.py     factor scores and multipliers      *)
(*   services/api/common/causal.py      causal snapshot and drivers        *)
(*   services/api/common/importance.py  importance score, tier, priority   *)
(*                                                                         *)
(* A Python float is a value in millionths, or NaN.                        *)
(***************************************************************************)
EXTENDS Integers, Sequences, FiniteSets, TLC

VARIABLES
    batch,        \* the request as parsed: [items, dry_run], never modified
    items,        \* batch.items as mutated in place by ingest (entity_id)
    pc,           \* position of the ingest handler
    results,      \* per-item result records
    to_insert,    \* indices of the items collected for the audit insert
    dc_i,         \* detect_conflicts: number of items already scanned
    by_provider,  \* detect_conflicts: (provider, id) -> first entity_id seen
    by_name_bd,   \* detect_conflicts: (name, birth_date) -> first entity_id
    marks,        \* detect_conflicts: entity_id -> conflict tag
    audit,        \* rows of dpc_ingest_audit written by this request
    response,     \* the dictionary returned by ingest, <<>> until it returns
    uidA,         \* first recorded call of a UID generator
    uidB,         \* second recorded call of a UID generator
    call,         \* last recorded call of a scoring function: [fn, arg, out]
    reqs,         \* two ingest requests in flight, each with its own locals
    bf,           \* a backfill run: the handler's locals, session and tables
    http          \* a worker request with retries: the loop's locals

vars == <<batch, items, pc, results, to_insert, dc_i, by_provider, by_name_bd,
          marks, audit, response, uidA, uidB, call, reqs, bf, http>>

\* the variables of the backfill run, the worker and the request pair
sideVars == <<reqs, bf, http>>

ingestVars == <<batch, items, pc, results, to_insert, dc_i, by_provider,
                by_name_bd, marks, audit, response>>

----------------------------------------------------------------------------
(* Python values *)

None == <<"None">>

\* a JSON number and a JSON boolean: a type tag, which is no character,
\* followed by the characters str() gives
PyInt(digits) == <<"int">> \o digits

PyTrue == <<"bool", "T", "r", "u", "e">>

PyFalse == <<"bool", "F", "a", "l", "s", "e">>

\* isinstance(v, str)
IsStr(v) == v = <<>> \/ Head(v) \notin {"None", "int", "bool"}

\* bool(v)
Truthy(v) == v # None /\ v # <<>> /\ v # PyInt(<<"0">>) /\ v # PyFalse

\* the expression `a or b`
Or(a, b) == IF Truthy(a) THEN a ELSE b

\* str(v)
PyStr(v) ==
    IF IsStr(v) THEN v ELSE IF v = None THEN <<"N", "o", "n", "e">> ELSE Tail(v)

\* str(v or "")
StrOrEmpty(v) == IF Truthy(v) THEN PyStr(v) ELSE <<>>

WS == {" ", "\t"}

UPPER == <<"A","B","C","D","E","F","G","H","I","J","K","L","M",
           "N","O","P","Q","R","S","T","U","V","W","X","Y","Z">>

LOWER == <<"a","b","c","d","e","f","g","h","i","j","k","l","m",
           "n","o","p","q","r","s","t","u","v","w","x","y","z">>

DIGITS == {"0","1","2","3","4","5","6","7","8","9"}

\* the characters the pattern [^a-z0-9_] leaves in place
SlugChars == {LOWER[i] : i \in 1..26} \cup DIGITS \cup {"_"}

LowerChar(c) ==
    IF \E i \in 1..26 : UPPER[i] = c
    THEN LOWER[CHOOSE i \in 1..26 : UPPER[i] = c]
    ELSE c

\* str.lower()
Lower(s) == [i \in 1..Len(s) |-> LowerChar(s[i])]

RECURSIVE LStrip(_)
LStrip(s) == IF s # <<>> /\ Head(s) \in WS THEN LStrip(Tail(s)) ELSE s

RECURSIVE RStrip(_)
RStrip(s) ==
    IF s # <<>> /\ s[Len(s)] \in WS THEN RStrip(SubSeq(s, 1, Len(s) - 1)) ELSE s

\* str.strip()
Strip(s) == RStrip(LStrip(s))

\* re.sub(r"\s+", "_", s): every maximal run of whitespace becomes one "_"
RECURSIVE SubWs(_)
SubWs(s) ==
    IF s = <<>> THEN <<>>
    ELSE IF Head(s) \in WS THEN <<"_">> \o SubWs(LStrip(s))
    ELSE <<Head(s)>> \o SubWs(Tail(s))

IsSlugChar(c) == c \in SlugChars

\* re.sub(r"[^a-z0-9_]", "", s)
SubNonSlug(s) == SelectSeq(s, IsSlugChar)

\* str.startswith
StartsWith(s, p) == Len(s) >= Len(p) /\ SubSeq(s, 1, Len(p)) = p

----------------------------------------------------------------------------
(* common/uid.py *)

slug(s) == SubNonSlug(SubWs(Lower(Strip(s))))

normalize_name(name) == IF ~Truthy(name) THEN <<>> ELSE slug(name)

\* hash_short(basis): the first 10 hex digits of SHA-1 of the basis, tabulated
\* for the bases "<normalized name>|<birth date>" the model's inputs produce
hash_short(basis) ==
    CASE basis = <<"|">>         -> <<"3","e","b","4","1","6","2","2","3","e">>
      [] basis = <<"n","|">>     -> <<"c","1","2","5","b","6","a","d","f","b">>
      [] basis = <<"|","d">>     -> <<"0","6","1","4","9","4","1","c","9","a">>
      [] basis = <<"n","|","d">> -> <<"6","6","4","5","2","a","6","4","3","3">>
      [] basis = <<"m","|","d">> -> <<"3","4","e","2","6","d","1","e","6","e">>
      [] basis = <<"m","|">>     -> <<"0","0","5","5","5","a","4","9","c","2">>

PLR == <<"p","l","r">>

COACH == <<"c","o","a","c","h">>

REF == <<"r","e","f">>

GLOBAL == <<"g","l","o","b","a","l">>

\* f"{normalize_name(name)}|{(birth_date or '').strip()}"
Basis(name, birth_date) ==
    normalize_name(name) \o <<"|">> \o Strip(StrOrEmpty(birth_date))

\* the generator with the test `provider or provider_id`
MakeUidEither(prefix, provider, provider_id, name, birth_date) ==
    IF Truthy(provider) \/ Truthy(provider_id)
    THEN prefix \o <<"_">> \o slug(StrOrEmpty(provider)) \o <<"_">>
                \o slug(StrOrEmpty(provider_id))
    ELSE prefix \o <<"_">> \o GLOBAL \o <<"_">>
                \o hash_short(Basis(name, birth_date))

\* the generator with the provider slugged into both places
MakeUidProviderTwice(prefix, provider, provider_id, name, birth_date) ==
    IF Truthy(provider) /\ Truthy(provider_id)
    THEN prefix \o <<"_">> \o slug(provider) \o <<"_">> \o slug(provider)
    ELSE prefix \o <<"_">> \o GLOBAL \o <<"_">>
                \o hash_short(Basis(name, birth_date))

\* the common body of make_player_uid, make_coach_uid and make_ref_uid
MakeUid(prefix, provider, provider_id, name, birth_date) ==
    IF Truthy(provider) /\ Truthy(provider_id)
    THEN prefix \o <<"_">> \o slug(provider) \o <<"_">> \o slug(provider_id)
    ELSE prefix \o <<"_">> \o GLOBAL \o <<"_">>
                \o hash_short(Basis(name, birth_date))

make_player_uid(provider, provider_player_id, name, birth_date) ==
    MakeUid(PLR, provider, provider_player_id, name, birth_date)

make_coach_uid(provider, provider_id, name, birth_date) ==
    MakeUid(COACH, provider, provider_id, name, birth_date)

make_ref_uid(provider, provider_id, name, birth_date) ==
    MakeUid(REF, provider, provider_id, name, birth_date)

----------------------------------------------------------------------------
(* Calls of the UID generators on their own *)

Kinds == {"player", "coach", "referee"}

\* the generator ingest calls for an entity kind
UidOf(kind, provider, provider_id, name, birth_date) ==
    CASE kind = "player"  -> make_player_uid(provider, provider_id, name, birth_date)
      [] kind = "coach"   -> make_coach_uid(provider, provider_id, name, birth_date)
      [] kind = "referee" -> make_ref_uid(provider, provider_id, name, birth_date)

PrefixOf(kind) ==
    CASE kind = "player" -> PLR [] kind = "coach" -> COACH [] kind = "referee" -> REF

UidProviders ==
    {None, <<>>, <<"s">>, <<"S", " ">>, <<"a">>, <<"a", "_", "b">>, GLOBAL}

UidProviderIds ==
    {None, <<>>, <<"1">>, <<"1", "!">>, <<"c">>, <<"b", "_", "c">>,
     hash_short(<<"n", "|", "d">>)}

UidNames == {None, <<"n">>, <<"N", " ">>}

UidBirthDates == {None, <<"d">>}

NoCall == [made |-> FALSE]

\* no scoring function has been called
NotCalled == [fn |-> "none", arg |-> <<>>, out |-> <<>>]

\* no pair of requests, no backfill run and no worker request is under way
NoPair == <<>>

NoRun == [pc |-> "idle"]

NoRequest == [pc |-> "idle"]

SideIdle == reqs = NoPair /\ bf = NoRun /\ http = NoRequest

UidCall(kind, provider, provider_id, name, birth_date) ==
    [made |-> TRUE, kind |-> kind, provider |-> provider,
     provider_id |-> provider_id, name |-> name, birth_date |-> birth_date,
     uid |-> UidOf(kind, provider, provider_id, name, birth_date)]

IngestIdle ==
    /\ batch = [items |-> <<>>, dry_run |-> TRUE]
    /\ items = <<>>
    /\ pc = "idle"
    /\ results = <<>>
    /\ to_insert = <<>>
    /\ dc_i = 0
    /\ by_provider = <<>>
    /\ by_name_bd = <<>>
    /\ marks = <<>>
    /\ audit = <<>>
    /\ response = <<>>

InitUid ==
    IngestIdle /\ uidA = NoCall /\ uidB = NoCall /\ call = NotCalled /\ SideIdle

CallFirst ==
    /\ ~uidA.made
    /\ \E kind \in Kinds, provider \in UidProviders, provider_id \in UidProviderIds,
          name \in UidNames, birth_date \in UidBirthDates :
            uidA' = UidCall(kind, provider, provider_id, name, birth_date)
    /\ UNCHANGED <<ingestVars, uidB, call, sideVars>>

CallSecond ==
    /\ uidA.made /\ ~uidB.made
    /\ \E provider \in UidProviders, provider_id \in UidProviderIds,
          name \in UidNames, birth_date \in UidBirthDates :
            uidB' = UidCall(uidA.kind, provider, provider_id, name, birth_date)
    /\ UNCHANGED <<ingestVars, uidA, call, sideVars>>

NextUid == CallFirst \/ CallSecond

SpecUid == InitUid /\ [][NextUid]_vars

----------------------------------------------------------------------------
(* api/dpc.py: the request *)

\* IngestItem.payload: the keys the pipeline reads (None: the key is absent)
\* and extra, the characters the payload's other entries add to str(payload)
Payload(provider, provider_id, provider_player_id, name, birth_date, extra) ==
    [provider |-> provider, provider_id |-> provider_id,
     provider_player_id |-> provider_player_id, name |-> name,
     birth_date |-> birth_date, extra |-> extra]

\* IngestItem: entity_id is a str or None; confidence is <<>> for None or
\* <<c>> with c in hundredths, 0..100 (the field validator's range)
Item(entity_type, entity_id, payload, confidence) ==
    [entity_type |-> entity_type, entity_id |-> entity_id,
     payload |-> payload, confidence |-> confidence]

PlrId(x) == PLR \o <<"_", x>>

PersonND(provider, provider_id) ==
    Payload(provider, provider_id, None, <<"n">>, <<"d">>, 40)

Conf == <<90>>

ItemPool ==
    { Item("player", PlrId("a"), PersonND(<<"s">>, <<"1">>), Conf),
      Item("player", PlrId("b"), PersonND(<<"s">>, <<"1">>), Conf),
      Item("player", PlrId("b"),
           Payload(<<"s">>, <<"1">>, None, None, None, 40), Conf),
      Item("player", PlrId("c"), PersonND(<<"S", " ">>, <<"2">>), Conf),
      Item("player", <<>>,
           Payload(<<"s">>, <<"1">>, None, None, None, 40), Conf),
      Item("player", <<"x">>, PersonND(None, None), Conf),
      Item("player", <<>>,
           Payload(<<"s">>, <<"1">>, <<"2">>, None, None, 40), Conf),
      Item("player", PlrId("d"), PersonND(<<"s">>, <<"2">>), <<>>),
      Item("player", PlrId("e"),
           Payload(None, None, None, <<"N", " ">>, <<"d", " ">>, 200000), Conf),
      Item("coach", <<>>, PersonND(<<"s">>, <<"1">>), Conf),
      Item("referee", <<" ">>, PersonND(None, None), <<>>),
      Item("team", <<"t">>, PersonND(<<"s">>, <<"1">>), Conf),
      Item("team", None, Payload(None, None, None, None, None, 0), Conf) }

\* the largest batch of the model (IngestBatch allows 1..500 items)
MaxItems == 3

Batches == UNION {[1..n -> ItemPool] : n \in 1..MaxItems}

----------------------------------------------------------------------------
(* api/dpc.py: ingest *)

ACCEPTED == "accepted"

WARN == "warn"

BLOCK == "block"

BLOCK_TAG == "block:provider_id_conflict"

WARN_TAG == "warn:possible_duplicate"

PayloadLimit == 200000

PayloadKeys ==
    <<<<"provider", 8>>, <<"provider_id", 11>>, <<"provider_player_id", 18>>,
      <<"name", 4>>, <<"birth_date", 10>>>>

PresentKeys(p) == {i \in 1..Len(PayloadKeys) : p[PayloadKeys[i][1]] # None}

\* `not it.payload`: the dictionary has no entry
PayloadEmpty(p) == PresentKeys(p) = {} /\ p.extra = 0

RECURSIVE SumOver(_, _, _)
SumOver(S, p, acc) ==
    IF S = {} THEN acc
    ELSE LET i == CHOOSE x \in S : TRUE
         IN SumOver(S \ {i}, p,
                    acc + PayloadKeys[i][2] + Len(p[PayloadKeys[i][1]]) + 6)

\* len(str(it.payload)): the braces, 'key': 'value' for each entry read here
\* with ", " between them, and the characters of the other entries
PayloadSize(p) ==
    LET n == Cardinality(PresentKeys(p))
    IN  SumOver(PresentKeys(p), p, 2 + p.extra) + 2 * (IF n > 0 THEN n - 1 ELSE 0)

\* the validation without the test for an empty payload
validate_itemSizeOnly(it) ==
    IF PayloadSize(it.payload) > PayloadLimit
    THEN [status |-> BLOCK, message |-> <<"payload too large (>200k chars)">>]
    ELSE IF it.confidence = <<>>
    THEN [status |-> WARN, message |-> <<"confidence missing; set to None">>]
    ELSE [status |-> ACCEPTED, message |-> <<"ok">>]

validate_item(it) ==
    IF PayloadEmpty(it.payload)
    THEN [status |-> BLOCK, message |-> <<"payload empty">>]
    ELSE IF PayloadSize(it.payload) > PayloadLimit
    THEN [status |-> BLOCK, message |-> <<"payload too large (>200k chars)">>]
    ELSE IF it.confidence = <<>>
    THEN [status |-> WARN, message |-> <<"confidence missing; set to None">>]
    ELSE [status |-> ACCEPTED, message |-> <<"ok">>]

\* Step 1 for one item: the entity_id the item leaves the loop with
AssignEntityId(it) ==
    LET eid == Strip(StrOrEmpty(it.entity_id))
        p   == it.payload
    IN  IF it.entity_type = "player" /\ ~StartsWith(eid, PLR \o <<"_">>)
        THEN make_player_uid(p.provider, Or(p.provider_player_id, p.provider_id),
                             p.name, p.birth_date)
        ELSE IF it.entity_type = "coach" /\ ~StartsWith(eid, COACH \o <<"_">>)
        THEN make_coach_uid(p.provider, p.provider_id, p.name, p.birth_date)
        ELSE IF it.entity_type = "referee" /\ ~StartsWith(eid, REF \o <<"_">>)
        THEN make_ref_uid(p.provider, p.provider_id, p.name, p.birth_date)
        ELSE it.entity_id

Init ==
    /\ \E its \in Batches, dry \in BOOLEAN : batch = [items |-> its, dry_run |-> dry]
    /\ items = batch.items
    /\ pc = "step1"
    /\ results = <<>>
    /\ to_insert = <<>>
    /\ dc_i = 0
    /\ by_provider = <<>>
    /\ by_name_bd = <<>>
    /\ marks = <<>>
    /\ audit = <<>>
    /\ response = <<>>
    /\ uidA = NoCall
    /\ uidB = NoCall
    /\ call = NotCalled
    /\ SideIdle

\* Step 1: fill in / standardise entity_id, item by item, in place
Step1 ==
    /\ pc = "step1"
    /\ items' = [i \in 1..Len(items) |->
                   [items[i] EXCEPT !.entity_id = AssignEntityId(items[i])]]
    /\ pc' = "step2"
    /\ UNCHANGED <<batch, results, to_insert, dc_i, by_provider, by_name_bd,
                   marks, audit, response, uidA, uidB, call, sideVars>>

\* the result record Step 2 appends for an item
ResultOf(it) ==
    LET res == validate_item(it)
    IN  [entity_type |-> it.entity_type, entity_id |-> it.entity_id,
         status |-> res.status, message |-> res.message]

\* the Step 2 loop leaving at the first item that is not accepted
RECURSIVE CollectResultsUntilRejected(_)
CollectResultsUntilRejected(its) ==
    IF its = <<>> THEN <<>>
    ELSE IF ResultOf(Head(its)).status # ACCEPTED THEN <<ResultOf(Head(its))>>
    ELSE <<ResultOf(Head(its))>> \o CollectResultsUntilRejected(Tail(its))

\* the results list the Step 2 loop builds
CollectResults(its) == [i \in 1..Len(its) |-> ResultOf(its[i])]

\* the to_insert list the Step 2 loop builds (as indices into the batch)
CollectToInsert(its, dry_run) ==
    SelectSeq([i \in 1..Len(its) |-> i],
              LAMBDA i : validate_item(its[i]).status = ACCEPTED /\ ~dry_run)

\* Step 2: validate every item, collect results and the rows to insert
Step2 ==
    /\ pc = "step2"
    /\ results' = CollectResults(items)
    /\ to_insert' = CollectToInsert(items, batch.dry_run)
    /\ pc' = "scan_provider"
    /\ UNCHANGED <<batch, items, dc_i, by_provider, by_name_bd, marks, audit,
                   response, uidA, uidB, call, sideVars>>

----------------------------------------------------------------------------
(* common/uid.py: detect_conflicts, one loop iteration in two steps *)

\* d[k] = v on a dictionary kept as a function
Put(d, k, v) == [x \in (DOMAIN d) \cup {k} |-> IF x = k THEN v ELSE d[x]]

\* the (provider, id) key of an item
ProviderKey(it) ==
    <<Strip(Lower(StrOrEmpty(it.payload.provider))),
      Strip(StrOrEmpty(Or(it.payload.provider_id, it.payload.provider_player_id)))>>

\* the (name, birth_date) key of an item
NameBdKey(it) ==
    <<normalize_name(it.payload.name), Strip(StrOrEmpty(it.payload.birth_date))>>

Scanned(it) == it.entity_type \in {"player", "coach", "referee"}

\* lines 79-84: the same (provider, id) must not map to two entity_ids
CheckProvider(st, it) ==
    LET p == ProviderKey(it)
    IN  IF p[1] # <<>> /\ p[2] # <<>>
        THEN IF p \in DOMAIN st.by_provider /\ st.by_provider[p] # it.entity_id
             THEN [st EXCEPT !.marks =
                     Put(Put(st.marks, it.entity_id, BLOCK_TAG),
                         st.by_provider[p], BLOCK_TAG)]
             ELSE [st EXCEPT !.by_provider = Put(st.by_provider, p, it.entity_id)]
        ELSE st

\* the name check marking only the item at hand
CheckNameBdOneSided(st, it) ==
    LET key == NameBdKey(it)
    IN  IF key[1] # <<>> /\ key[2] # <<>>
        THEN IF key \in DOMAIN st.by_name_bd /\ st.by_name_bd[key] # it.entity_id
             THEN [st EXCEPT !.marks = Put(st.marks, it.entity_id, WARN_TAG)]
             ELSE [st EXCEPT !.by_name_bd = Put(st.by_name_bd, key, it.entity_id)]
        ELSE st

\* lines 87-93: same name and birth date under two entity_ids
CheckNameBd(st, it) ==
    LET key == NameBdKey(it)
    IN  IF key[1] # <<>> /\ key[2] # <<>>
        THEN IF key \in DOMAIN st.by_name_bd /\ st.by_name_bd[key] # it.entity_id
             THEN [st EXCEPT !.marks =
                     Put(Put(st.marks, it.entity_id, WARN_TAG),
                         st.by_name_bd[key], WARN_TAG)]
             ELSE [st EXCEPT !.by_name_bd = Put(st.by_name_bd, key, it.entity_id)]
        ELSE st

ScanState == [by_provider |-> by_provider, by_name_bd |-> by_name_bd, marks |-> marks]

\* an item of another entity type: `continue`
ScanSkip ==
    /\ pc = "scan_provider"
    /\ dc_i < Len(items)
    /\ ~Scanned(items[dc_i + 1])
    /\ dc_i' = dc_i + 1
    /\ UNCHANGED <<batch, items, pc, results, to_insert, by_provider, by_name_bd,
                   marks, audit, response, uidA, uidB, call, sideVars>>

ScanProvider ==
    /\ pc = "scan_provider"
    /\ dc_i < Len(items)
    /\ Scanned(items[dc_i + 1])
    /\ LET st == CheckProvider(ScanState, items[dc_i + 1])
       IN  /\ by_provider' = st.by_provider
           /\ marks' = st.marks
    /\ pc' = "scan_name"
    /\ UNCHANGED <<batch, items, results, to_insert, dc_i, by_name_bd, audit,
                   response, uidA, uidB, call, sideVars>>

ScanNameBd ==
    /\ pc = "scan_name"
    /\ LET st == CheckNameBd(ScanState, items[dc_i + 1])
       IN  /\ by_name_bd' = st.by_name_bd
           /\ marks' = st.marks
    /\ dc_i' = dc_i + 1
    /\ pc' = "scan_provider"
    /\ UNCHANGED <<batch, items, results, to_insert, by_provider, audit,
                   response, uidA, uidB, call, sideVars>>

----------------------------------------------------------------------------
(* api/dpc.py: ingest, after detect_conflicts has returned *)

\* the marking that lets a warn tag replace any status
ApplyTagWarnAlways(r, tag) ==
    [r EXCEPT !.status = IF tag = BLOCK_TAG THEN BLOCK ELSE WARN,
              !.message = Append(r.message, tag)]

\* lines 151-156: one result whose entity_id carries the tag
ApplyTag(r, tag) ==
    [r EXCEPT !.status = IF tag = BLOCK_TAG THEN BLOCK
                         ELSE IF tag = WARN_TAG /\ r.status = ACCEPTED THEN WARN
                         ELSE r.status,
              !.message = Append(r.message, tag)]

\* Step 3: the marks returned by detect_conflicts are applied to the results
ApplyMarks ==
    /\ pc = "scan_provider"
    /\ dc_i = Len(items)
    /\ results' = [i \in 1..Len(results) |->
                     IF results[i].entity_id \in DOMAIN marks
                     THEN ApplyTag(results[i], marks[results[i].entity_id])
                     ELSE results[i]]
    /\ pc' = "step4"
    /\ UNCHANGED <<batch, items, to_insert, dc_i, by_provider, by_name_bd, marks,
                   audit, response, uidA, uidB, call, sideVars>>

\* the row exec_sql inserts for an item (confidence or 1.0, in hundredths)
AuditRow(it) ==
    [entity_type |-> it.entity_type, entity_id |-> it.entity_id,
     confidence |-> IF it.confidence = <<>> \/ it.confidence = <<0>>
                    THEN 100 ELSE it.confidence[1],
     status |-> ACCEPTED, message |-> <<"ok">>]

\* Step 4: one INSERT per collected item
Step4 ==
    /\ pc = "step4"
    /\ audit' = [k \in 1..Len(to_insert) |-> AuditRow(items[to_insert[k]])]
    /\ pc' = "step5"
    /\ UNCHANGED <<batch, items, results, to_insert, dc_i, by_provider,
                   by_name_bd, marks, response, uidA, uidB, call, sideVars>>

\* the summary with warn taking precedence over block
OverallWarnFirst(rs) ==
    IF \E i \in 1..Len(rs) : rs[i].status = WARN THEN WARN
    ELSE IF \E i \in 1..Len(rs) : rs[i].status = BLOCK THEN BLOCK
    ELSE ACCEPTED

\* Step 5: the overall status
Overall(rs) ==
    IF \E i \in 1..Len(rs) : rs[i].status = BLOCK THEN BLOCK
    ELSE IF \E i \in 1..Len(rs) : rs[i].status = WARN THEN WARN
    ELSE ACCEPTED

Step5 ==
    /\ pc = "step5"
    /\ response' = [ok |-> TRUE, overall |-> Overall(results),
                    count |-> Len(results), results |-> results,
                    dry_run |-> batch.dry_run, inserted |-> Len(audit)]
    /\ pc' = "done"
    /\ UNCHANGED <<batch, items, results, to_insert, dc_i, by_provider,
                   by_name_bd, marks, audit, uidA, uidB, call, sideVars>>

Next ==
    \/ Step1
    \/ Step2
    \/ ScanSkip
    \/ ScanProvider
    \/ ScanNameBd
    \/ ApplyMarks
    \/ Step4
    \/ Step5

Spec == Init /\ [][Next]_vars

----------------------------------------------------------------------------
(* Properties of ingest and detect_conflicts, checked under Spec *)

N == Len(items)

Returned == pc = "done"

Rank(status) == CASE status = ACCEPTED -> 0 [] status = WARN -> 1 [] status = BLOCK -> 2

MarkOf(e) == IF e \in DOMAIN marks THEN marks[e] ELSE "none"

\* the status validation gave item i, before any conflict mark
Validated(i) == validate_item(items[i]).status

\* C1: the returned overall status is block if a final per-item status is
\* block, else warn if one is warn, else accepted.
C1_OverallPrecedence ==
    Returned =>
      LET rs  == response.results
          has(st) == \E i \in 1..Len(rs) : rs[i].status = st
      IN  /\ rs = results
          /\ has(BLOCK) => response.overall = BLOCK
          /\ (~has(BLOCK) /\ has(WARN)) => response.overall = WARN
          /\ (~has(BLOCK) /\ ~has(WARN)) => response.overall = ACCEPTED

\* a batch whose only warn comes from a conflict mark, and one holding both
\* a block and a warn
C1_Witness ==
    /\ Returned
    /\ response.overall = BLOCK
    /\ \E i, j \in 1..N :
         /\ results[i].status = WARN /\ results[j].status = BLOCK
         /\ Validated(j) = ACCEPTED

\* C2: an audit row is written only for an item of a non-dry-run batch whose
\* final status in the response is accepted; a dry run writes nothing.
C2_OnlyFinalAcceptedPersisted ==
    Returned =>
      /\ \A k \in 1..Len(audit) :
           /\ ~batch.dry_run
           /\ response.results[to_insert[k]].status = ACCEPTED
      /\ batch.dry_run => (audit = <<>> /\ response.inserted = 0)

SameRawProvider(i, j) ==
    /\ Truthy(items[i].payload.provider)
    /\ Truthy(Or(items[i].payload.provider_id, items[i].payload.provider_player_id))
    /\ items[i].payload.provider = items[j].payload.provider
    /\ Or(items[i].payload.provider_id, items[i].payload.provider_player_id)
         = Or(items[j].payload.provider_id, items[j].payload.provider_player_id)

\* C3: two scanned items with the same non-empty (provider, provider id) and
\* different entity_ids both carry block:provider_id_conflict in the returned
\* marks, and both end with status block.
C3_ProviderConflictBlocksBoth ==
    \A i, j \in 1..N :
      (/\ Scanned(items[i]) /\ Scanned(items[j])
       /\ SameRawProvider(i, j)
       /\ items[i].entity_id # items[j].entity_id)
      => /\ pc = "step4" => (/\ MarkOf(items[i].entity_id) = BLOCK_TAG
                         /\ MarkOf(items[j].entity_id) = BLOCK_TAG)
         /\ Returned => (/\ response.results[i].status = BLOCK
                         /\ response.results[j].status = BLOCK)

\* C4: during the scan, a mark block:provider_id_conflict is never replaced.
C4_BlockMarkNeverDowngraded ==
    [][\A e \in DOMAIN marks : marks[e] = BLOCK_TAG => marks'[e] = BLOCK_TAG]_vars

\* the indices of the items detect_conflicts does not skip
ScannedItems == {i \in 1..N : Scanned(items[i])}

\* pairs of scanned items with one non-empty (name, birth_date) key and
\* different entity_ids
NameMatches ==
    LET nk == [i \in 1..N |-> NameBdKey(items[i])]
    IN  {m \in ScannedItems \X ScannedItems :
           /\ nk[m[1]][1] # <<>> /\ nk[m[1]][2] # <<>>
           /\ nk[m[1]] = nk[m[2]]
           /\ items[m[1]].entity_id # items[m[2]].entity_id}

\* the entity_ids that share a non-empty (provider, id) key with a different
\* entity_id
ProviderConflictIds ==
    LET pk == [i \in 1..N |-> ProviderKey(items[i])]
    IN  {items[i].entity_id :
           i \in {i \in ScannedItems :
                    /\ pk[i][1] # <<>> /\ pk[i][2] # <<>>
                    /\ \E j \in ScannedItems :
                         pk[j] = pk[i] /\ items[j].entity_id # items[i].entity_id}}

\* detect_conflicts has just returned
MarksReturned == pc = "scan_provider" /\ dc_i = N

\* C5 as stated: two scanned items with the same non-empty normalized name and
\* birth date and different entity_ids are both marked warn:possible_duplicate.
C5_NameMatchWarnsBoth ==
    MarksReturned =>
      \A m \in NameMatches : MarkOf(items[m[1]].entity_id) = WARN_TAG

\* C5 amended: both entity_ids of a name/birth-date match are marked, with
\* warn:possible_duplicate unless the entity_id is also part of a provider-id
\* conflict; no entity_id outside a provider-id conflict is marked block.
C5_NameMatchMarksBoth ==
    MarksReturned =>
      LET conflicting == ProviderConflictIds
      IN  /\ \A m \in NameMatches :
                /\ items[m[1]].entity_id \in DOMAIN marks
                /\ \/ marks[items[m[1]].entity_id] = WARN_TAG
                   \/ items[m[1]].entity_id \in conflicting
          /\ \A e \in DOMAIN marks : marks[e] = BLOCK_TAG => e \in conflicting

\* a name match between three entity_ids without any provider conflict
C5_Witness ==
    /\ MarksReturned
    /\ \E i, j, k \in 1..N :
         /\ {<<i, j>>, <<j, k>>, <<i, k>>} \subseteq NameMatches
         /\ \A e \in {items[i].entity_id, items[j].entity_id, items[k].entity_id} :
              MarkOf(e) = WARN_TAG /\ e \notin ProviderConflictIds

\* C6: applying the marks never lowers a status in accepted < warn < block,
\* and a warn mark makes a status warn only from accepted.
C6_MarksOnlyRaiseStatus ==
    pc = "step4" =>
      \A i \in 1..N :
        /\ Rank(results[i].status) >= Rank(Validated(i))
        /\ MarkOf(results[i].entity_id) = "none" => results[i].status = Validated(i)
        /\ MarkOf(results[i].entity_id) = WARN_TAG =>
             results[i].status = IF Validated(i) = ACCEPTED THEN WARN ELSE Validated(i)

\* an item validation blocked, carrying a warn mark, still block
C6_Witness ==
    /\ Returned
    /\ \E i \in 1..N :
         /\ Validated(i) = BLOCK
         /\ MarkOf(results[i].entity_id) = WARN_TAG
         /\ response.results[i].status = BLOCK

Blank(eid) == Strip(StrOrEmpty(eid)) = <<>>

\* C8: ingest replaces an item's entity_id only when the input entity_id is
\* blank and the entity_type is player, coach or referee.
C8_OnlyBlankIdsGenerated ==
    pc # "step1" =>
      \A i \in 1..N :
        items[i].entity_id # batch.items[i].entity_id
          => /\ Blank(batch.items[i].entity_id)
             /\ batch.items[i].entity_type \in Kinds

----------------------------------------------------------------------------
(* Properties of the UID generators, checked under SpecUid *)

HasPair(c) == Truthy(c.provider) /\ Truthy(c.provider_id)

BothMade == uidA.made /\ uidB.made

SameArgs(a, b) ==
    /\ a.provider = b.provider /\ a.provider_id = b.provider_id
    /\ a.name = b.name /\ a.birth_date = b.birth_date

\* C9: a generated ID is "<prefix>_<slug(provider)>_<slug(id)>" when provider
\* and provider id are both present, else "<prefix>_global_<hash(normalized
\* name|birth_date)>", with prefix plr, coach or ref; two calls with the same
\* arguments, or with the same present provider pair whatever the name and
\* birth date, return the same ID.
C9_UidDeterministicFormat ==
    /\ \A c \in {uidA, uidB} :
         c.made =>
           c.uid = IF HasPair(c)
                   THEN PrefixOf(c.kind) \o <<"_">> \o slug(c.provider)
                          \o <<"_">> \o slug(c.provider_id)
                   ELSE PrefixOf(c.kind) \o <<"_", "g", "l", "o", "b", "a", "l", "_">>
                          \o hash_short(normalize_name(c.name) \o <<"|">>
                                          \o Strip(StrOrEmpty(c.birth_date)))
    /\ (BothMade /\ SameArgs(uidA, uidB)) => uidA.uid = uidB.uid
    /\ (BothMade /\ HasPair(uidA) /\ uidA.provider = uidB.provider
          /\ uidA.provider_id = uidB.provider_id) => uidA.uid = uidB.uid

\* two calls with one present provider pair and different names
C9_Witness ==
    /\ BothMade /\ HasPair(uidA)
    /\ uidA.provider = uidB.provider /\ uidA.provider_id = uidB.provider_id
    /\ uidA.name # uidB.name /\ uidA.birth_date # uidB.birth_date
    /\ uidA.uid = uidB.uid

\* C10 as stated: for one kind, two different present provider pairs always
\* give different IDs, and a provider-pair ID never equals a fallback ID.
C10_DistinctPairsDistinctIds ==
    BothMade =>
      /\ (HasPair(uidA) /\ HasPair(uidB)
            /\ <<uidA.provider, uidA.provider_id>> # <<uidB.provider, uidB.provider_id>>)
           => uidA.uid # uidB.uid
      /\ (HasPair(uidA) /\ ~HasPair(uidB)) => uidA.uid # uidB.uid

NoUnderscore(s) == \A i \in 1..Len(s) : s[i] # "_"

\* C10 amended: two present provider pairs whose slugged forms differ, the
\* slugged providers holding no underscore, give different IDs; a
\* provider-pair ID whose slugged provider is not "global" differs from every
\* fallback ID.
C10_DistinctSlugsDistinctIds ==
    BothMade =>
      /\ (HasPair(uidA) /\ HasPair(uidB)
            /\ NoUnderscore(slug(uidA.provider)) /\ NoUnderscore(slug(uidB.provider))
            /\ <<slug(uidA.provider), slug(uidA.provider_id)>>
                 # <<slug(uidB.provider), slug(uidB.provider_id)>>)
           => uidA.uid # uidB.uid
      /\ (HasPair(uidA) /\ ~HasPair(uidB) /\ slug(uidA.provider) # GLOBAL)
           => uidA.uid # uidB.uid

\* two pairs with one slugged provider and different slugged ids
C10_Witness ==
    /\ BothMade /\ HasPair(uidA) /\ HasPair(uidB)
    /\ slug(uidA.provider) = slug(uidB.provider)
    /\ uidA.provider # uidB.provider
    /\ slug(uidA.provider_id) # slug(uidB.provider_id)
    /\ uidA.uid # uidB.uid

----------------------------------------------------------------------------
(* common/uid.py and api/dpc.py on payload values of any JSON type *)

\* what a recorded call produced
Raise == [raised |-> TRUE, value |-> <<>>]

Return(v) == [raised |-> FALSE, value |-> v]

\* s.strip(): AttributeError unless s is a str
StripRaises(s) == ~IsStr(s)

\* _slug(s) starts with s.strip()
slugRaises(s) == StripRaises(s)

\* normalize_name(name) slugs every truthy name
normalize_nameRaises(name) == Truthy(name) /\ slugRaises(name)

\* the common body of the three generators raises
MakeUidRaises(provider, provider_id, name, birth_date) ==
    IF Truthy(provider) /\ Truthy(provider_id)
    THEN slugRaises(provider) \/ slugRaises(provider_id)
    ELSE normalize_nameRaises(name) \/ StripRaises(Or(birth_date, <<>>))

\* Step 1 raises on an item
AssignEntityIdRaises(it) ==
    LET eid == Strip(StrOrEmpty(it.entity_id))
        p   == it.payload
    IN  IF it.entity_type = "player" /\ ~StartsWith(eid, PLR \o <<"_">>)
        THEN MakeUidRaises(p.provider, Or(p.provider_player_id, p.provider_id),
                           p.name, p.birth_date)
        ELSE IF it.entity_type = "coach" /\ ~StartsWith(eid, COACH \o <<"_">>)
        THEN MakeUidRaises(p.provider, p.provider_id, p.name, p.birth_date)
        ELSE IF it.entity_type = "referee" /\ ~StartsWith(eid, REF \o <<"_">>)
        THEN MakeUidRaises(p.provider, p.provider_id, p.name, p.birth_date)
        ELSE FALSE

\* detect_conflicts, lines 69-76, raises on an item: str() takes the provider
\* and the id whatever they are, the name and the birth date are used as given
ScanKeysRaise(it) ==
    /\ Scanned(it)
    /\ \/ normalize_nameRaises(it.payload.name)
       \/ StripRaises(Or(it.payload.birth_date, <<>>))

\* the values of one payload key: absent, a string, numbers, a boolean
TypedValues(str) == {None, str, PyInt(<<"0">>), PyInt(<<"7">>), PyTrue}

TypedPayloads ==
    { Payload(provider, provider_id, provider_player_id, name, birth_date, 40) :
        provider \in TypedValues(<<"s">>), provider_id \in TypedValues(<<"1">>),
        provider_player_id \in {None, PyInt(<<"7">>)},
        name \in TypedValues(<<"n">>), birth_date \in TypedValues(<<"d">>) }

TypedItems ==
    { Item(entity_type, entity_id, payload, Conf) :
        entity_type \in Kinds \cup {"team"}, entity_id \in {None, PlrId("a")},
        payload \in TypedPayloads }

\* the state no ingest and no UID call is part of
CallIdle == IngestIdle /\ uidA = NoCall /\ uidB = NoCall /\ SideIdle

InitCall == CallIdle /\ call = NotCalled

\* Step 1 of ingest on one item
CallAssignEntityId ==
    /\ call = NotCalled
    /\ \E it \in TypedItems :
         call' = [fn |-> "assign_entity_id", arg |-> it,
                  out |-> IF AssignEntityIdRaises(it) THEN Raise
                          ELSE Return(AssignEntityId(it))]
    /\ UNCHANGED <<ingestVars, uidA, uidB, sideVars>>

\* detect_conflicts([it]): one item alone gets no mark
CallDetectConflicts ==
    /\ call = NotCalled
    /\ \E it \in TypedItems :
         call' = [fn |-> "detect_conflicts", arg |-> it,
                  out |-> IF ScanKeysRaise(it) THEN Raise ELSE Return(<<>>)]
    /\ UNCHANGED <<ingestVars, uidA, uidB, sideVars>>

\* C11: UID assignment as ingest calls it and detect_conflicts never raise,
\* whatever the presence and the JSON type (string, number, boolean, null) of
\* provider, provider_id, provider_player_id, name and birth_date
C11_UidAndScanNeverRaise ==
    call.fn \in {"assign_entity_id", "detect_conflicts"} => ~call.out.raised

----------------------------------------------------------------------------
(* Values of the scoring payloads: [t, q, s] with the type tag t; q is the   *)
(* value, an int in units, a float in millionths; s is the text of a str    *)

PyNone == [t |-> "none", q |-> 0, s |-> <<>>]

PyBool(b) == [t |-> "bool", q |-> IF b THEN 1 ELSE 0, s |-> <<>>]

Num(n) == [t |-> "int", q |-> n, s |-> <<>>]

Float(q) == [t |-> "float", q |-> q, s |-> <<>>]

NaN == [t |-> "nan", q |-> 0, s |-> <<>>]

Str(s) == [t |-> "str", q |-> 0, s |-> s]

\* 1.0 in millionths
ONE == 1000000

\* a decimal literal of the source, given in millionths
Lit(q) == Float(q)

\* bool(v)
Bool(v) ==
    CASE v.t = "none"  -> FALSE
      [] v.t = "str"   -> v.s # <<>>
      [] v.t = "nan"   -> TRUE
      [] OTHER         -> v.q # 0

\* v or d
OrElse(v, d) == IF Bool(v) THEN v ELSE d

(* float arithmetic: every operation rounds to the nearest millionth, any   *)
(* operation on NaN gives NaN and any comparison with NaN is false          *)

IsNaN(x) == x.t = "nan"

Abs(n) == IF n < 0 THEN 0 - n ELSE n

Sign(n) == IF n < 0 THEN 0 - 1 ELSE 1

\* round(a * b / 10^6) of naturals, in parts that stay below 2^31
MulNat(a, b) ==
    LET ah == a \div 1000
        al == a % 1000
        bh == b \div 1000
        bl == b % 1000
        m  == ah * bl + al * bh
    IN  ah * bh + m \div 1000 + ((m % 1000) * 1000 + al * bl + 500000) \div ONE

\* round(a / n) of a natural by a positive integer
DivNat(a, n) == (2 * a + n) \div (2 * n)

FAdd(x, y) == IF IsNaN(x) \/ IsNaN(y) THEN NaN ELSE Float(x.q + y.q)

FSub(x, y) == IF IsNaN(x) \/ IsNaN(y) THEN NaN ELSE Float(x.q - y.q)

FMul(x, y) ==
    IF IsNaN(x) \/ IsNaN(y) THEN NaN
    ELSE Float(Sign(x.q) * Sign(y.q) * MulNat(Abs(x.q), Abs(y.q)))

\* x / n for the whole-number divisors of the source (3.0, 4.0, 5.0, 100.0)
FDiv(x, n) == IF IsNaN(x) THEN NaN ELSE Float(Sign(x.q) * DivNat(Abs(x.q), n))

FLt(x, y) == ~IsNaN(x) /\ ~IsNaN(y) /\ x.q < y.q

FGt(x, y) == FLt(y, x)

FGe(x, y) == ~IsNaN(x) /\ ~IsNaN(y) /\ x.q >= y.q

FAbs(x) == IF IsNaN(x) THEN NaN ELSE Float(Abs(x.q))

\* max(x, y) and min(x, y): the first argument unless the second beats it
FMax(x, y) == IF FGt(y, x) THEN y ELSE x

FMin(x, y) == IF FLt(y, x) THEN y ELSE x

\* 10^d
RECURSIVE Pow10(_)
Pow10(d) == IF d = 0 THEN 1 ELSE 10 * Pow10(d - 1)

\* round(x, d) for d <= 6: to the nearest multiple of 10^-d.  A decimal tie
\* is no tie of the binary float, which lies beside it: the products of the
\* pool lie above, so a tie goes up
Round(x, d) ==
    IF IsNaN(x) THEN NaN
    ELSE LET u == Pow10(6 - d)
             a == Abs(x.q)
             r == a % u
         IN  Float(Sign(x.q) * (IF 2 * r >= u THEN a - r + u ELSE a - r))

----------------------------------------------------------------------------
(* float(x) and int(x) of a payload value.  The texts of the pool are signed *)
(* decimals, nan and words: no infinity, exponent or underscore form         *)

Digits10 == <<"0", "1", "2", "3", "4", "5", "6", "7", "8", "9">>

DigitVal(c) == (CHOOSE i \in 1..10 : Digits10[i] = c) - 1

IsDigits(s) == s # <<>> /\ \A i \in 1..Len(s) : s[i] \in DIGITS

RECURSIVE NatOf(_)
NatOf(s) ==
    IF s = <<>> THEN 0
    ELSE 10 * NatOf(SubSeq(s, 1, Len(s) - 1)) + DigitVal(s[Len(s)])

Negative(s) == s # <<>> /\ Head(s) = "-"

Unsigned(s) == IF s # <<>> /\ Head(s) \in {"+", "-"} THEN Tail(s) ELSE s

\* the place of the decimal point, Len(u) + 1 when there is none
PointAt(u) ==
    IF \E i \in 1..Len(u) : u[i] = "."
    THEN CHOOSE i \in 1..Len(u) : u[i] = "." /\ \A j \in 1..(i - 1) : u[j] # "."
    ELSE Len(u) + 1

WholePart(u) == SubSeq(u, 1, PointAt(u) - 1)

FracPart(u) == SubSeq(u, PointAt(u) + 1, Len(u))

IsDecimal(u) ==
    /\ WholePart(u) \o FracPart(u) # <<>>
    /\ \A i \in 1..Len(u) : i # PointAt(u) => u[i] \in DIGITS

NaNText == <<"n", "a", "n">>

\* the first six decimals of a fraction, in millionths
FracVal(f) == NatOf(SubSeq(f \o <<"0", "0", "0", "0", "0", "0">>, 1, 6))

\* float(x) raises: TypeError on None, ValueError on a text that is no number
FloatRaises(v) ==
    CASE v.t = "none" -> TRUE
      [] v.t = "str"  -> LET u == Unsigned(Strip(v.s))
                         IN  ~(Lower(u) = NaNText \/ IsDecimal(u))
      [] OTHER        -> FALSE

\* float(x) where it returns
ToFloat(v) ==
    CASE v.t \in {"int", "bool"} -> Float(v.q * ONE)
      [] v.t = "str" ->
           LET u == Unsigned(Strip(v.s))
           IN  IF Lower(u) = NaNText THEN NaN
               ELSE Float((IF Negative(Strip(v.s)) THEN 0 - 1 ELSE 1)
                          * (NatOf(WholePart(u)) * ONE + FracVal(FracPart(u))))
      [] OTHER -> v

\* int(x) raises: TypeError on None, ValueError on NaN and on a text that is
\* no whole number
IntRaises(v) ==
    CASE v.t \in {"none", "nan"} -> TRUE
      [] v.t = "str"  -> ~IsDigits(Unsigned(Strip(v.s)))
      [] OTHER        -> FALSE

\* int(x) where it returns: a float is cut towards zero
ToInt(v) ==
    CASE v.t = "float" -> Num(Sign(v.q) * (Abs(v.q) \div ONE))
      [] v.t = "str"   -> Num((IF Negative(Strip(v.s)) THEN 0 - 1 ELSE 1)
                              * NatOf(Unsigned(Strip(v.s))))
      [] OTHER         -> Num(v.q)

\* x.lower() raises AttributeError unless x is a str
LowerRaises(v) == v.t # "str"

\* d.get(k, default) of a dictionary kept as a function on its keys
Get(d, k, default) == IF k \in DOMAIN d THEN d[k] ELSE default

----------------------------------------------------------------------------
(* common/normalizer.py.  The keys of the manual form, which the source     *)
(* writes in Chinese (lines 104-117), carry the prefix zh_ here              *)

\* _coerce_float(x, default=0.0)
coerce_float(x) == IF FloatRaises(x) THEN Float(0) ELSE ToFloat(x)

\* _coerce_int(x, default=0)
coerce_int(x) == IF IntRaises(x) THEN Num(0) ELSE ToInt(x)

TruthyWords ==
    { <<"1">>, <<"t", "r", "u", "e">>, <<"y", "e", "s">>, <<"y">>, <<"t">>,
      <<"o", "n">> }

\* _truthy(x): of the texts str() gives for a number only "1" is in the list
truthy(x) ==
    CASE x.t = "bool" -> PyBool(x.q = 1)
      [] x.t = "none" -> PyBool(FALSE)
      [] x.t = "str"  -> PyBool(Lower(Strip(x.s)) \in TruthyWords)
      [] x.t = "int"  -> PyBool(x.q = 1)
      [] OTHER        -> PyBool(FALSE)

\* w in s
Contains(s, w) ==
    \E i \in 1..(Len(s) - Len(w) + 1) : SubSeq(s, i, i + Len(w) - 1) = w

MID == <<"m", "i", "d">>

EARLY == <<"e", "a", "r", "l", "y">>

LATE == <<"l", "a", "t", "e">>

CRITICAL == <<"c", "r", "i", "t", "i", "c", "a", "l">>

CriticalRounds ==
    { <<"f", "i", "n", "a", "l">>, <<"s", "e", "m", "i">>,
      <<"q", "u", "a", "r", "t", "e", "r">>, <<"p", "l", "a", "y", "o", "f", "f">> }

EarlyRounds ==
    { <<"r", "o", "u", "n", "d", "_", "1">>, <<"m", "d", "1">>,
      <<"m", "a", "t", "c", "h", "d", "a", "y", "_", "1">> }

LateRounds ==
    { <<"r", "o", "u", "n", "d", "_", "3", "4">>, <<"m", "d", "3", "4">>,
      <<"m", "a", "t", "c", "h", "d", "a", "y", "_", "3", "4">>,
      <<"l", "a", "s", "t">> }

\* lines 44-51: str(round or "").lower(); the text of a number or a boolean
\* holds none of the words
AfPhase(p) ==
    LET v   == Get(p, "af_season_round", PyNone)
        rnd == IF v.t = "str" THEN Lower(v.s) ELSE <<>>
    IN  IF \E k \in CriticalRounds : Contains(rnd, k) THEN CRITICAL
        ELSE IF \E k \in EarlyRounds : Contains(rnd, k) THEN EARLY
        ELSE IF \E k \in LateRounds : Contains(rnd, k) THEN LATE
        ELSE MID

\* the canonical keys: how each is converted, the default of a missing key,
\* and the key of each source
Canon(key, conv, default, af, crawler, manual) ==
    [key |-> key, conv |-> conv, default |-> default, af |-> af,
     crawler |-> crawler, manual |-> manual]

CanonRows ==
    { Canon("games_7d", "float", Num(0), "af_games_7d", "games_last_7d",
            "zh_games_7d"),
      Canon("avg_rest_day", "float", Num(4), "af_avg_rest_day", "rest_avg_days",
            "zh_avg_rest_day"),
      Canon("key_absent", "int", Num(0), "af_key_absent", "key_out",
            "zh_key_absent"),
      Canon("total_absent", "int", Num(0), "af_total_absent", "total_out",
            "zh_total_absent"),
      Canon("red_rate", "float", Num(0), "af_ref_red_rate", "ref_red%",
            "zh_red_rate"),
      Canon("penalty_rate", "float", Num(0), "af_ref_pen_rate", "ref_pk%",
            "zh_penalty_rate"),
      Canon("late_swap", "truthy", PyBool(FALSE), "af_ref_late_swap",
            "ref_late_swap", "zh_late_swap"),
      Canon("scandal", "truthy", PyBool(FALSE), "af_scandal", "news_scandal",
            "zh_scandal"),
      Canon("transfer_hot", "truthy", PyBool(FALSE), "af_transfer_hot",
            "transfer_heat", "zh_transfer_hot"),
      Canon("hype_score", "float", Num(0), "af_hype", "hype", "zh_hype_score"),
      Canon("derby_strength", "float", Num(0), "af_derby_strength", "derby_idx",
            "zh_derby_strength"),
      Canon("recent_tension", "float", Num(0), "af_recent_tension",
            "tension_idx", "zh_recent_tension"),
      Canon("S", "int", Num(0), "af_S", "covid_level", "zh_S") }

CanonKeys == {r.key : r \in CanonRows} \cup {"phase"}

RowOf(key) == CHOOSE r \in CanonRows : r.key = key

Convert(conv, x) ==
    CASE conv = "float"  -> coerce_float(x)
      [] conv = "int"    -> coerce_int(x)
      [] conv = "truthy" -> truthy(x)

\* _from_apifootball(p)
from_apifootball(p) ==
    [k \in CanonKeys |->
       IF k = "phase" THEN Str(AfPhase(p))
       ELSE Convert(RowOf(k).conv, Get(p, RowOf(k).af, RowOf(k).default))]

\* line 82: (p.get("season_phase") or "mid").lower()
CrawlerPhase(p) == OrElse(Get(p, "season_phase", PyNone), Str(MID))

\* lines 85-86: a percentage, divided by 100 unless the value is missing
Percent(x) ==
    FDiv(coerce_float(x),
         IF x.t \in {"int", "bool", "float", "nan", "str"} THEN 100 ELSE 1)

\* _from_crawler(p) where it returns
from_crawler(p) ==
    [k \in CanonKeys |->
       CASE k = "phase"        -> Str(Lower(CrawlerPhase(p).s))
         [] k = "red_rate"     -> Percent(Get(p, "ref_red%", PyNone))
         [] k = "penalty_rate" -> Percent(Get(p, "ref_pk%", PyNone))
         [] OTHER ->
              Convert(RowOf(k).conv, Get(p, RowOf(k).crawler, RowOf(k).default))]

\* line 106: (p.get(<form key>, p.get("phase", "mid")) or "mid").lower()
ManualPhase(p) ==
    OrElse(Get(p, "zh_phase", Get(p, "phase", Str(MID))), Str(MID))

\* the mapping of the form keys alone, an existing canonical key not read
from_manualFormOnly(p) ==
    [k \in CanonKeys |->
       IF k = "phase" THEN Str(Lower(OrElse(Get(p, "zh_phase", Str(MID)), Str(MID)).s))
       ELSE Convert(RowOf(k).conv, Get(p, RowOf(k).manual, RowOf(k).default))]

\* _from_manual(p) where it returns
from_manual(p) ==
    [k \in CanonKeys |->
       IF k = "phase" THEN Str(Lower(ManualPhase(p).s))
       ELSE Convert(RowOf(k).conv,
                    Get(p, RowOf(k).manual, Get(p, k, RowOf(k).default)))]

\* line 127: (payload.get("source") or "").lower()
SourceOf(payload) == OrElse(Get(payload, "source", PyNone), Str(<<>>))

\* the keys of the pool that start with af_
AfKeys == {r.af : r \in CanonRows} \cup {"af_season_round"}

\* lines 130-138: the mapping normalize picks
Mapper(payload) ==
    LET src  == Lower(SourceOf(payload).s)
        keys == DOMAIN payload
    IN  IF src = <<"a", "p", "i", "f", "o", "o", "t", "b", "a", "l", "l">>
           \/ \E k \in keys : k \in AfKeys
        THEN "apifootball"
        ELSE IF src = <<"c", "r", "a", "w", "l", "e", "r">>
                \/ "games_last_7d" \in keys \/ "ref_red%" \in keys
        THEN "crawler"
        ELSE "manual"

\* normalize(payload) raises: .lower() of a source or a phase that is no str
normalizeRaises(payload) ==
    \/ LowerRaises(SourceOf(payload))
    \/ Mapper(payload) = "crawler" /\ LowerRaises(CrawlerPhase(payload))
    \/ Mapper(payload) = "manual" /\ LowerRaises(ManualPhase(payload))

\* normalize(payload) where it returns: the payload overwritten by the mapping
normalize(payload) ==
    LET m == CASE Mapper(payload) = "apifootball" -> from_apifootball(payload)
               [] Mapper(payload) = "crawler"     -> from_crawler(payload)
               [] Mapper(payload) = "manual"      -> from_manual(payload)
    IN  [k \in (DOMAIN payload) \cup CanonKeys |->
           IF k \in CanonKeys THEN m[k] ELSE payload[k]]

\* a key a payload does not hold
Absent == [t |-> "absent", q |-> 0, s |-> <<>>]

\* the dictionary of the keys given a value
Dict(r) == [k \in {x \in DOMAIN r : r[x] # Absent} |-> r[k]]

NormalizePayloads ==
    { Dict([source |-> source, phase |-> phase, season_phase |-> season_phase,
            zh_phase |-> zh_phase, games_7d |-> games_7d,
            af_games_7d |-> af_games_7d, avg_rest_day |-> avg_rest_day,
            late_swap |-> late_swap] @@ ("ref_red%" :> red)) :
        source \in {Absent, PyNone, Num(1), Str(<<"c", "r", "a", "w", "l", "e", "r">>),
                    Str(<<"M", "a", "n", "u", "a", "l">>)},
        phase \in {Absent, Num(3), Str(<<"L", "a", "t", "e">>)},
        season_phase \in {Absent, PyBool(TRUE)},
        zh_phase \in {Absent, Str(CRITICAL)},
        games_7d \in {Absent, Num(2), Str(<<"a", "b", "c">>)},
        af_games_7d \in {Absent, Num(1)},
        avg_rest_day \in {Absent, PyNone},
        late_swap \in {Absent, Str(<<"y", "e", "s">>)},
        red \in {Absent, PyNone, Num(30)} }

\* payloads that hold all 14 canonical keys and no key of a source, some
\* values already converted and some not, with or without a field of their
\* own
CanonicalPayloads ==
    { Dict([games_7d |-> games_7d, avg_rest_day |-> Float(4 * ONE),
            phase |-> phase, key_absent |-> key_absent, total_absent |-> Num(4),
            red_rate |-> Float(300000), penalty_rate |-> Float(100000),
            late_swap |-> late_swap, scandal |-> PyBool(FALSE),
            transfer_hot |-> PyBool(FALSE), hype_score |-> Float(0),
            derby_strength |-> Float(500000), recent_tension |-> Float(0),
            S |-> Num(3), note |-> note]) :
        games_7d \in {Float(2 * ONE), Num(2), Str(<<"3">>)},
        phase \in {Str(MID), Str(<<"L", "a", "t", "e">>)},
        key_absent \in {Num(2), Float(2500000)},
        late_swap \in {PyBool(TRUE), Str(<<"y", "e", "s">>)},
        note \in {Absent, Str(<<"x">>)} }

CallNormalize ==
    /\ call = NotCalled
    /\ \E payload \in NormalizePayloads \cup CanonicalPayloads :
         call' = [fn |-> "normalize", arg |-> payload,
                  out |-> IF normalizeRaises(payload) THEN Raise
                          ELSE Return(normalize(payload))]
    /\ UNCHANGED <<ingestVars, uidA, uidB, sideVars>>

\* normalize on what normalize returned
CallNormalizeAgain ==
    /\ call.fn = "normalize"
    /\ ~call.out.raised
    /\ call' = [fn |-> "normalize_again",
                arg |-> [payload |-> call.arg, first |-> call.out.value],
                out |-> IF normalizeRaises(call.out.value) THEN Raise
                        ELSE Return(normalize(call.out.value))]
    /\ UNCHANGED <<ingestVars, uidA, uidB, sideVars>>

\* C12: normalize never raises, whatever keys are present and whatever the
\* JSON type of the values it reads, the source and the phase fields among
\* them, and returns a payload that holds all 14 canonical keys
C12_NormalizeNeverRaises ==
    call.fn = "normalize"
        => ~call.out.raised /\ CanonKeys \subseteq DOMAIN call.out.value

----------------------------------------------------------------------------
(* common/factors.py *)

\* _clamp01(x): a NaN fails both comparisons and is returned as it is
clamp01(x) ==
    IF FLt(x, Float(0)) THEN Float(0)
    ELSE IF FGt(x, Float(ONE)) THEN Float(ONE)
    ELSE x

\* _sigmoid(x) raises: exp(-4 * x) is out of the float range (OverflowError)
sigmoidRaises(n) == n <= 0 - 178

\* _sigmoid(x) = 1 / (1 + exp(-4 * x)) of a whole number, in millionths
sigmoid(n) ==
    CASE n >= 4      -> Float(ONE)
      [] n = 3       -> Float(999994)
      [] n = 2       -> Float(999665)
      [] n = 1       -> Float(982014)
      [] n = 0       -> Float(500000)
      [] n = 0 - 1   -> Float(17986)
      [] n = 0 - 2   -> Float(335)
      [] n = 0 - 3   -> Float(6)
      [] OTHER       -> Float(0)

\* a FactorResult without its explain text
FactorResult(name, score) == [name |-> name, score |-> score]

Games7d(p) == Get(p, "games_7d", Num(0))

AvgRestDay(p) == Get(p, "avg_rest_day", Num(4))

f_schedule_densityRaises(p) == FloatRaises(Games7d(p)) \/ FloatRaises(AvgRestDay(p))

f_schedule_density(p) ==
    LET games_7d     == ToFloat(Games7d(p))
        avg_rest_day == ToFloat(AvgRestDay(p))
        raw == FAdd(FDiv(games_7d, 3),
                    FDiv(FMax(Float(0), FSub(Float(4 * ONE), avg_rest_day)), 4))
    IN  FactorResult("schedule_density", clamp01(FMul(raw, Lit(600000))))

\* line 37: (payload.get("phase") or "mid").lower()
PhaseOf(p) == OrElse(Get(p, "phase", PyNone), Str(MID))

f_season_phaseRaises(p) == LowerRaises(PhaseOf(p))

f_season_phase(p) ==
    LET phase == Lower(PhaseOf(p).s)
    IN  FactorResult("season_phase",
                     CASE phase = EARLY    -> Lit(350000)
                       [] phase = MID      -> Lit(500000)
                       [] phase = LATE     -> Lit(650000)
                       [] phase = CRITICAL -> Lit(850000)
                       [] OTHER            -> Lit(500000))

KeyAbsent(p) == Get(p, "key_absent", Num(0))

TotalAbsent(p) == Get(p, "total_absent", Num(0))

f_injuriesRaises(p) ==
    \/ IntRaises(KeyAbsent(p))
    \/ IntRaises(TotalAbsent(p))
    \/ sigmoidRaises(ToInt(KeyAbsent(p)).q)

f_injuries(p) ==
    LET key_out   == ToInt(KeyAbsent(p)).q
        total_out == ToInt(TotalAbsent(p)).q
    IN  FactorResult("injuries",
            clamp01(FAdd(FMul(Lit(700000), sigmoid(key_out)),
                         FMul(Lit(300000),
                              clamp01(FDiv(Float(total_out * ONE), 5))))))

RedRate(p) == Get(p, "red_rate", Float(0))

PenaltyRate(p) == Get(p, "penalty_rate", Float(0))

f_refereeRaises(p) == FloatRaises(RedRate(p)) \/ FloatRaises(PenaltyRate(p))

f_referee(p) ==
    LET red  == ToFloat(RedRate(p))
        pen  == ToFloat(PenaltyRate(p))
        swap == Bool(Get(p, "late_swap", PyBool(FALSE)))
    IN  FactorResult("referee_volatility",
            clamp01(FAdd(FAdd(FMul(Lit(500000), red), FMul(Lit(300000), pen)),
                         IF swap THEN Lit(200000) ELSE Float(0))))

HypeScore(p) == Get(p, "hype_score", Float(0))

f_mediaRaises(p) == FloatRaises(HypeScore(p))

f_media(p) ==
    LET scandal  == Bool(Get(p, "scandal", PyBool(FALSE)))
        transfer == Bool(Get(p, "transfer_hot", PyBool(FALSE)))
        hype     == ToFloat(HypeScore(p))
    IN  FactorResult("media_pressure",
            clamp01(FAdd(FAdd(IF scandal THEN Lit(400000) ELSE Float(0),
                              IF transfer THEN Lit(300000) ELSE Float(0)),
                         FMul(Lit(300000), hype))))

DerbyStrength(p) == Get(p, "derby_strength", Float(0))

RecentTension(p) == Get(p, "recent_tension", Float(0))

f_rivalryRaises(p) ==
    FloatRaises(DerbyStrength(p)) \/ FloatRaises(RecentTension(p))

f_rivalry(p) ==
    LET hist   == ToFloat(DerbyStrength(p))
        recent == ToFloat(RecentTension(p))
    IN  FactorResult("rivalry",
            clamp01(FAdd(FMul(Lit(600000), hist), FMul(Lit(400000), recent))))

SocialS(p) == Get(p, "S", Num(0))

f_socialRaises(p) == IntRaises(SocialS(p))

f_social(p) ==
    FactorResult("social", clamp01(FDiv(Float(ToInt(SocialS(p)).q * ONE), 3)))

Impact(error_mul, weight_mul) == [error_mul |-> error_mul, weight_mul |-> weight_mul]

\* 1.0 + c * score, c in millionths
Plus(c, score) == FAdd(Float(ONE), FMul(Lit(c), score))

\* 1.0 - c * score
Minus(c, score) == FSub(Float(ONE), FMul(Lit(c), score))

\* the mapping with absences and the social factor raising the error
impact_mappingAllUp(name, score) ==
    CASE name = "injuries" -> Impact(Plus(200000, score), Plus(500000, score))
      [] name = "social"   -> Impact(Plus(100000, score), Float(ONE))
      [] name = "referee_volatility" -> Impact(Plus(100000, score), Float(ONE))
      [] name = "rivalry"  -> Impact(Float(ONE), Plus(2 * ONE, score))
      [] name = "schedule_density" ->
           Impact(Plus(80000, score), Plus(500000, score))
      [] name = "season_phase" ->
           Impact(Float(ONE), FAdd(Lit(800000), FMul(Lit(400000), score)))
      [] name = "media_pressure" ->
           Impact(Plus(60000, score), Plus(300000, score))
      [] OTHER -> Impact(Float(ONE), Float(ONE))

impact_mapping(name, score) ==
    CASE name = "injuries" -> Impact(Minus(200000, score), Plus(500000, score))
      [] name = "social"   -> Impact(Minus(100000, score), Float(ONE))
      [] name = "referee_volatility" -> Impact(Plus(100000, score), Float(ONE))
      [] name = "rivalry"  -> Impact(Float(ONE), Plus(2 * ONE, score))
      [] name = "schedule_density" ->
           Impact(Plus(80000, score), Plus(500000, score))
      [] name = "season_phase" ->
           Impact(Float(ONE), FAdd(Lit(800000), FMul(Lit(400000), score)))
      [] name = "media_pressure" ->
           Impact(Plus(60000, score), Plus(300000, score))
      [] OTHER -> Impact(Float(ONE), Float(ONE))

FACTOR_FUNCS ==
    << "f_schedule_density", "f_season_phase", "f_injuries", "f_referee",
       "f_media", "f_rivalry", "f_social" >>

\* fn(payload) raises
FactorRaises(fn, p) ==
    CASE fn = "f_schedule_density" -> f_schedule_densityRaises(p)
      [] fn = "f_season_phase"     -> f_season_phaseRaises(p)
      [] fn = "f_injuries"         -> f_injuriesRaises(p)
      [] fn = "f_referee"          -> f_refereeRaises(p)
      [] fn = "f_media"            -> f_mediaRaises(p)
      [] fn = "f_rivalry"          -> f_rivalryRaises(p)
      [] fn = "f_social"           -> f_socialRaises(p)

\* fn(payload) where it returns
Factor(fn, p) ==
    CASE fn = "f_schedule_density" -> f_schedule_density(p)
      [] fn = "f_season_phase"     -> f_season_phase(p)
      [] fn = "f_injuries"         -> f_injuries(p)
      [] fn = "f_referee"          -> f_referee(p)
      [] fn = "f_media"            -> f_media(p)
      [] fn = "f_rivalry"          -> f_rivalry(p)
      [] fn = "f_social"           -> f_social(p)

\* lines 136-139: the factor result with its multipliers
FactorItem(fn, p) ==
    LET r   == Factor(fn, p)
        imp == impact_mapping(r.name, r.score)
    IN  [name |-> r.name, score |-> r.score, error_mul |-> imp.error_mul,
         weight_mul |-> imp.weight_mul]

\* the running product of one multiplier over the first n items
RECURSIVE Product(_, _, _)
Product(its, field, n) ==
    IF n = 0 THEN Float(ONE) ELSE FMul(Product(its, field, n - 1), its[n][field])

evaluate_factorsRaises(context) ==
    \E i \in 1..Len(FACTOR_FUNCS) : FactorRaises(FACTOR_FUNCS[i], context)

\* evaluate_factors(context) where it returns
evaluate_factors(context) ==
    LET its == [i \in 1..Len(FACTOR_FUNCS) |-> FactorItem(FACTOR_FUNCS[i], context)]
    IN  [items |-> its,
         aggregate |->
           [error_mul  |-> Round(Product(its, "error_mul", Len(its)), 4),
            weight_mul |-> Round(Product(its, "weight_mul", Len(its)), 4)]]

\* the payloads given to the evaluators: each group of keys is absent, takes
\* the values of the specification's example, or a malformed value
SchedulePool ==
    { <<Absent, Absent>>, <<Num(6), Num(2)>>, <<Str(NaNText), Absent>>,
      <<Str(<<"a", "b", "c">>), Absent>>, <<PyNone, Absent>> }

PhasePool == {Absent, Str(CRITICAL), Num(3)}

InjuryPool == { <<Absent, Absent>>, <<Num(2), Num(4)>>, <<Num(0 - 200), Absent>> }

RefereePool ==
    { <<Absent, Absent, Absent>>, <<Float(300000), Float(100000), PyBool(TRUE)>>,
      <<Absent, Float(100000), Absent>> }

\* hype_score and derby_strength
MoodPool == { <<Absent, Absent>>, <<Str(NaNText), Absent>>, <<Absent, Float(500000)>> }

SocialPool == {Absent, Num(3)}

OddsPool == {Absent, Float(250000), Num(1), Str(<<"a", "b", "c">>)}

FactorPayloads ==
    { Dict([games_7d |-> sch[1], avg_rest_day |-> sch[2], phase |-> phase,
            key_absent |-> inj[1], total_absent |-> inj[2], red_rate |-> ref[1],
            penalty_rate |-> ref[2], late_swap |-> ref[3], hype_score |-> mood[1],
            derby_strength |-> mood[2], S |-> social, odds_deviation |-> odds]) :
        sch \in SchedulePool, phase \in PhasePool, inj \in InjuryPool,
        ref \in RefereePool, mood \in MoodPool, social \in SocialPool,
        odds \in OddsPool }

FactorFuncs == {FACTOR_FUNCS[i] : i \in 1..Len(FACTOR_FUNCS)}

\* one evaluator on a payload
CallFactor ==
    /\ call = NotCalled
    /\ \E fn \in FactorFuncs, payload \in FactorPayloads :
         call' = [fn |-> fn, arg |-> payload,
                  out |-> IF FactorRaises(fn, payload) THEN Raise
                          ELSE Return(Factor(fn, payload))]
    /\ UNCHANGED <<ingestVars, uidA, uidB, sideVars>>

CallEvaluateFactors ==
    /\ call = NotCalled
    /\ \E payload \in FactorPayloads :
         call' = [fn |-> "evaluate_factors", arg |-> payload,
                  out |-> IF evaluate_factorsRaises(payload) THEN Raise
                          ELSE Return(evaluate_factors(payload))]
    /\ UNCHANGED <<ingestVars, uidA, uidB, sideVars>>

\* C13: none of the seven evaluators, nor evaluate_factors, raises on a
\* payload whose fields are absent, null, non-numeric texts or of the wrong
\* type
C13_EvaluatorsNeverRaise ==
    call.fn \in FactorFuncs \cup {"evaluate_factors"} => ~call.out.raised

----------------------------------------------------------------------------
(* common/importance.py; its clamp01 is _clamp01 of factors.py *)

UpperChar(c) ==
    IF \E i \in 1..26 : LOWER[i] = c
    THEN UPPER[CHOOSE i \in 1..26 : LOWER[i] = c]
    ELSE c

\* str.upper()
Upper(s) == [i \in 1..Len(s) |-> UpperChar(s[i])]

\* the decimal digits of a natural number
RECURSIVE NatText(_)
NatText(n) ==
    IF n < 10 THEN <<Digits10[n + 1]>>
    ELSE NatText(n \div 10) \o <<Digits10[(n % 10) + 1]>>

\* the digits of a fraction in millionths, without trailing zeros
RECURSIVE FracText(_, _)
FracText(f, width) ==
    IF width = 1 \/ f % 10 # 0
    THEN LET t == NatText(f)
         IN  [i \in 1..(width - Len(t)) |-> "0"] \o t
    ELSE FracText(f \div 10, width - 1)

\* str(v); a float between 0.0001 and 10^16 prints as a plain decimal
StrOf(v) ==
    CASE v.t = "str"   -> v.s
      [] v.t = "none"  -> <<"N", "o", "n", "e">>
      [] v.t = "bool"  -> IF v.q = 1 THEN <<"T", "r", "u", "e">>
                          ELSE <<"F", "a", "l", "s", "e">>
      [] v.t = "int"   -> (IF v.q < 0 THEN <<"-">> ELSE <<>>) \o NatText(Abs(v.q))
      [] v.t = "nan"   -> NaNText
      [] v.t = "float" -> (IF v.q < 0 THEN <<"-">> ELSE <<>>)
                          \o NatText(Abs(v.q) \div ONE) \o <<".">>
                          \o FracText(Abs(v.q) % ONE, 6)

\* isinstance(v, (int, float)); a bool is an int
IsNumber(v) == v.t \in {"int", "bool", "float", "nan"}

\* v >= n for a whole number n
GeInt(v, n) == IsNumber(v) /\ ~IsNaN(v) /\ ToFloat(v).q >= n * ONE

\* v is True
IsTrue(v) == v = PyBool(TRUE)

tier_from_score(s) ==
    IF FGe(s, Lit(800000)) THEN "A"
    ELSE IF FGe(s, Lit(600000)) THEN "B"
    ELSE IF FGe(s, Lit(400000)) THEN "C"
    ELSE "D"

\* the ladder with the fourth step at 0.40 as well
priority_from_scoreNoFifth(s) ==
    IF FGe(s, Lit(800000)) THEN 1
    ELSE IF FGe(s, Lit(600000)) THEN 2
    ELSE 4

priority_from_score(s) ==
    IF FGe(s, Lit(800000)) THEN 1
    ELSE IF FGe(s, Lit(600000)) THEN 2
    ELSE IF FGe(s, Lit(400000)) THEN 3
    ELSE IF FGe(s, Lit(200000)) THEN 4
    ELSE 5

PLAYER == <<"p", "l", "a", "y", "e", "r">>

\* line 39: (p.get("position") or "").upper()
PositionOf(p) == OrElse(Get(p, "position", PyNone), Str(<<>>))

\* .upper() raises AttributeError unless the position is a str
score_playerRaises(p) == PositionOf(p).t # "str"

\* lines 44-47: the starter probability, else the starter flag
StarterTerm(p) ==
    LET prob    == Get(p, "starter_prob", PyNone)
        starter == Get(p, "starter", PyNone)
    IN  IF IsNumber(prob) THEN FMul(Lit(300000), clamp01(ToFloat(prob)))
        ELSE IF starter.t = "bool"
        THEN (IF starter.q = 1 THEN Lit(200000) ELSE Float(0))
        ELSE Float(0)

\* lines 50-55
MarketValueTerm(p) ==
    LET mv == Get(p, "market_value_m", PyNone)
    IN  IF GeInt(mv, 80) THEN Lit(200000)
        ELSE IF GeInt(mv, 40) THEN Lit(120000)
        ELSE IF GeInt(mv, 20) THEN Lit(70000)
        ELSE IF GeInt(mv, 5) THEN Lit(30000)
        ELSE Float(0)

\* w * clamp01(float(v)) for a number v, else nothing
Weighted(w, v) ==
    IF IsNumber(v) THEN FMul(Lit(w), clamp01(ToFloat(v))) ELSE Float(0)

\* lines 63-66
JerseyTerm(p) ==
    LET jersey == Strip(StrOf(OrElse(Get(p, "jersey_no", PyNone), Str(<<>>))))
    IN  IF jersey \in {<<"1", "0">>, <<"7">>, <<"9">>} THEN Lit(60000)
        ELSE IF jersey \in {<<"8">>, <<"1", "1">>} THEN Lit(40000)
        ELSE IF jersey = <<"1">> THEN Lit(30000)
        ELSE Float(0)

\* the sum without the final clamp
score_playerUnclamped(p) ==
    LET pos  == Upper(PositionOf(p).s)
        base == CASE pos = <<"F">>      -> Lit(700000)
                  [] pos = <<"M">>      -> Lit(600000)
                  [] pos = <<"D">>      -> Lit(550000)
                  [] pos = <<"G", "K">> -> Lit(500000)
                  [] OTHER              -> Lit(500000)
    IN  FAdd(FAdd(FAdd(FAdd(FAdd(base, StarterTerm(p)), MarketValueTerm(p)),
                       Weighted(150000, Get(p, "minutes_rolling", PyNone))),
                  JerseyTerm(p)),
             IF IsTrue(Get(p, "key_flag", PyNone)) THEN Lit(100000) ELSE Float(0))

score_player(p) == clamp01(score_playerUnclamped(p))

score_coach(p) ==
    clamp01(FAdd(FAdd(FAdd(Lit(550000),
                           Weighted(250000, Get(p, "stability", PyNone))),
                      Weighted(250000, Get(p, "style_impact", PyNone))),
                 Weighted(200000, Get(p, "reputation", PyNone))))

score_referee(p) ==
    clamp01(FAdd(FAdd(FAdd(Lit(450000),
                           Weighted(200000, Get(p, "red_rate", PyNone))),
                      Weighted(150000, Get(p, "penalty_rate", PyNone))),
                 IF IsTrue(Get(p, "fifa_badge", PyNone)) THEN Lit(100000)
                 ELSE Float(0)))

score_jersey(p) ==
    clamp01(FAdd(FAdd(Lit(300000), Weighted(400000, Get(p, "popularity", PyNone))),
                 Weighted(400000, Get(p, "legacy", PyNone))))

\* line 114: (entity_type or "").lower(), entity_type a str or None
EntityType(entity_type) == Lower(StrOrEmpty(entity_type))

JerseyTypes ==
    { <<"j", "e", "r", "s", "e", "y">>, <<"k", "i", "t">>,
      <<"j", "e", "r", "s", "e", "y", "_", "n", "o">> }

scoreRaises(entity_type, payload) ==
    EntityType(entity_type) = PLAYER
        /\ score_playerRaises(payload)

\* score(entity_type, payload) where it returns.  The sum is taken in
\* millionths: where the decimal sum lands exactly on a step of the ladder
\* (0.50 + 0.20 + 0.10) the build's binary sum may lie one unit in the last
\* place under it, 0.7999999999999999, and take the step below.
score(entity_type, payload) ==
    LET et == EntityType(entity_type)
        s  == CASE et = PLAYER      -> score_player(payload)
                [] et = COACH                                 -> score_coach(payload)
                [] et = <<"r", "e", "f", "e", "r", "e", "e">> -> score_referee(payload)
                [] et \in JerseyTypes                         -> score_jersey(payload)
                [] OTHER                                      -> Lit(300000)
    IN  [score |-> s, tier |-> tier_from_score(s),
         priority |-> priority_from_score(s)]

\* the payloads given to the scorer, by entity type
PlayerPayloads ==
    { Dict([position |-> position, starter_prob |-> starter_prob,
            starter |-> starter, market_value_m |-> market_value_m,
            minutes_rolling |-> minutes_rolling, jersey_no |-> jersey_no,
            key_flag |-> key_flag]) :
        position \in {Absent, Str(<<"F">>), Str(<<"m">>), Num(7)},
        starter_prob \in {Absent, Float(ONE), Float(500000), NaN},
        starter \in {Absent, PyBool(TRUE)},
        market_value_m \in {Absent, Num(90), Num(40), Num(3)},
        minutes_rolling \in {Absent, Float(ONE), Float(2 * ONE)},
        jersey_no \in {Absent, Str(<<"1", "0">>), Num(8)},
        key_flag \in {Absent, PyBool(TRUE), Num(1)} }

OtherPayloads ==
    { Dict([stability |-> stability, reputation |-> reputation,
            red_rate |-> red_rate, fifa_badge |-> fifa_badge,
            popularity |-> popularity, legacy |-> legacy]) :
        stability \in {Absent, Float(500000), Float(2 * ONE), NaN},
        reputation \in {Absent, Float(ONE)},
        red_rate \in {Absent, Float(500000)},
        fifa_badge \in {Absent, PyBool(TRUE)},
        popularity \in {Absent, Float(ONE)},
        legacy \in {Absent, Float(ONE), Str(<<"x">>)} }

OtherTypes ==
    { None, <<"C", "o", "a", "c", "h">>, <<"r", "e", "f", "e", "r", "e", "e">>,
      <<"k", "i", "t">>, <<"t", "e", "a", "m">> }

\* score(entity_type, payload)
CallScore ==
    /\ call = NotCalled
    /\ \E entity_type \in OtherTypes \cup {PLAYER} :
         \E payload \in IF entity_type = PLAYER THEN PlayerPayloads
                        ELSE OtherPayloads :
           call' = [fn |-> "score",
                    arg |-> [entity_type |-> entity_type, payload |-> payload],
                    out |-> IF scoreRaises(entity_type, payload) THEN Raise
                            ELSE Return(score(entity_type, payload))]
    /\ UNCHANGED <<ingestVars, uidA, uidB, sideVars>>

\* the scores the ladder is applied to: every hundredth of [0, 1] and the
\* millionths next to them
ScoreGrid == {h * 10000 + d : h \in 0..100, d \in {0 - 1, 0, 1}} \cap (0..ONE)

\* tier_from_score(s) and priority_from_score(s) of one score
CallLadder ==
    /\ call = NotCalled
    /\ \E s \in ScoreGrid :
         call' = [fn |-> "ladder", arg |-> Float(s),
                  out |-> Return([tier |-> tier_from_score(Float(s)),
                                  priority |-> priority_from_score(Float(s))])]
    /\ UNCHANGED <<ingestVars, uidA, uidB, sideVars>>

\* a score within [0, 1]; NaN is not
InUnit(s) == FGe(s, Float(0)) /\ FGe(Float(ONE), s)

\* C14: whenever a factor evaluator or the importance scorer returns, for
\* any entity type, its score s satisfies 0 <= s <= 1
C14_ScoresInUnitInterval ==
    (call.fn \in FactorFuncs \cup {"score"} /\ ~call.out.raised)
        => InUnit(call.out.value.score)

----------------------------------------------------------------------------
(* common/causal.py, called by api/predict.py on the result of               *)
(* evaluate_factors and the same payload.  The explain texts are left out.   *)

\* floor(a * b / 10^6) of naturals, in parts that stay below 2^31
FloorMul(a, b) ==
    LET ah == a \div 1000
        al == a % 1000
        bh == b \div 1000
        bl == b % 1000
        m  == ah * bl + al * bh
    IN  ah * bh + m \div 1000 + ((m % 1000) * 1000 + al * bl) \div ONE

\* round(x * y, d) for d <= 5, from the product before any rounding
MulRound(x, y, d) ==
    IF IsNaN(x) \/ IsNaN(y) THEN NaN
    ELSE LET u == Pow10(6 - d)
             h == FloorMul(Abs(x.q), Abs(y.q))
         IN  Float(Sign(x.q) * Sign(y.q) * (((h + u \div 2) \div u) * u))

\* round(x, d) in the snapshot: a decimal tie is no tie of the binary float,
\* which lies on one side of it or the other (1.3395 * 1.1 rounds to 1.4734)
RoundEither(x, d) ==
    IF IsNaN(x) THEN {NaN}
    ELSE LET u == Pow10(6 - d)
             a == Abs(x.q)
             r == a % u
         IN  IF 2 * r = u
             THEN {Float(Sign(x.q) * (a - r)), Float(Sign(x.q) * (a - r + u))}
             ELSE {Round(x, d)}

\* the remainder of a * b below one millionth is zero
ExactMul(a, b) ==
    LET m == (a \div 1000) * (b % 1000) + (a % 1000) * (b \div 1000)
    IN  ((m % 1000) * 1000 + (a % 1000) * (b % 1000)) % ONE = 0

\* round(x * y, d) in the snapshot, a decimal tie falling to either side
MulRoundEither(x, y, d) ==
    IF IsNaN(x) \/ IsNaN(y) THEN {NaN}
    ELSE LET u == Pow10(6 - d)
             h == FloorMul(Abs(x.q), Abs(y.q))
             s == Sign(x.q) * Sign(y.q)
         IN  IF 2 * (h % u) = u /\ ExactMul(Abs(x.q), Abs(y.q))
             THEN {Float(s * (h - u \div 2)), Float(s * (h + u \div 2))}
             ELSE {MulRound(x, y, d)}

\* line 56
Upset(payload) == Get(payload, "odds_deviation", PyNone)

\* lines 57-59: the upset index counts when it is not None and float()
\* takes it
HasUpset(payload) == Upset(payload) # PyNone /\ ~FloatRaises(Upset(payload))

\* line 59: max(0.0, min(1.0, float(upset)))
UpsetIndex(payload) == FMax(Float(0), FMin(Float(ONE), ToFloat(Upset(payload))))

\* lines 62-68
UpsetItem(u) ==
    [name |-> "upset_index", score |-> u, error_mul |-> Plus(80000, u),
     weight_mul |-> Plus(400000, u)]

\* lines 50, 62: the factor items, with the upset item when there is one
SnapshotItems(factors, payload) ==
    IF HasUpset(payload)
    THEN Append(factors.items, UpsetItem(UpsetIndex(payload)))
    ELSE factors.items

\* line 29
ImpactOf(it) ==
    FAdd(FAbs(FSub(it.error_mul, Float(ONE))),
         FMul(Lit(500000), FAbs(FSub(it.weight_mul, Float(ONE)))))

\* item j comes before item i in the stable descending sort of line 31
Before(its, j, i) ==
    \/ FGt(ImpactOf(its[j]), ImpactOf(its[i]))
    \/ ImpactOf(its[j]) = ImpactOf(its[i]) /\ j < i

\* the indices of the items in sorted order, when no impact is NaN
Sorted(its) ==
    [r \in 1..Len(its) |->
       CHOOSE i \in 1..Len(its) :
         Cardinality({j \in 1..Len(its) : Before(its, j, i)}) = r - 1]

\* lines 34-42
Driver(it, p0) ==
    [name |-> it.name, score |-> Round(it.score, 3),
     impact_error_delta |-> MulRound(p0, FSub(it.error_mul, Float(ONE)), 5),
     impact_weight_mul |-> Round(it.weight_mul, 4)]

\* scored[:3]
TopCount(its) == IF Len(its) < 3 THEN Len(its) ELSE 3

\* the lists _top_drivers(items, p0) may return.  Every comparison with a
\* NaN impact is false, so the sort of line 31 is given no order to produce:
\* where an impact is NaN the list is any TopCount items in any order
top_drivers(its, p0) ==
    IF \E i \in 1..Len(its) : IsNaN(ImpactOf(its[i]))
    THEN { [r \in 1..TopCount(its) |-> Driver(its[pick[r]], p0)] :
             pick \in { f \in [1..TopCount(its) -> 1..Len(its)] :
                          \A a, b \in DOMAIN f : a # b => f[a] # f[b] } }
    ELSE { [r \in 1..TopCount(its) |-> Driver(its[Sorted(its)[r]], p0)] }

\* lines 52-61: the running products, from the rounded aggregate
SnapshotMul(factors, payload, field, c) ==
    IF HasUpset(payload)
    THEN FMul(factors.aggregate[field], Plus(c, UpsetIndex(payload)))
    ELSE factors.aggregate[field]

\* lines 72-81: the snapshots causal_snapshot(factors, payload, p0) may
\* return
causal_snapshot(factors, payload, p0) ==
    LET err_mul == SnapshotMul(factors, payload, "error_mul", 80000)
        w_mul   == SnapshotMul(factors, payload, "weight_mul", 400000)
    IN  { [p0 |-> Round(p0, 5), error_mul |-> e, weight_mul |-> w,
           adjusted_error |-> a, drivers |-> d] :
            e \in RoundEither(err_mul, 4), w \in RoundEither(w_mul, 4),
            a \in MulRoundEither(p0, err_mul, 5),
            d \in top_drivers(SnapshotItems(factors, payload), p0) }

\* the default p0 of line 45, 0.021, and another baseline
P0Pool == {Lit(21000), Lit(50000)}

\* api/predict.py line 84: causal_snapshot on what evaluate_factors returned
CallCausalSnapshot ==
    /\ call.fn = "evaluate_factors"
    /\ ~call.out.raised
    /\ \E p0 \in P0Pool :
         \E snapshot \in causal_snapshot(call.out.value, call.arg, p0) :
           call' = [fn |-> "causal_snapshot",
                    arg |-> [factors |-> call.out.value, payload |-> call.arg,
                             p0 |-> p0],
                    out |-> Return(snapshot)]
    /\ UNCHANGED <<ingestVars, uidA, uidB, sideVars>>

\* a multiplier strictly above zero; NaN is not
Positive(x) == FGt(x, Float(0))

\* C15: the error_mul and weight_mul of every factor item whose score is in
\* [0, 1], the aggregate products of evaluate_factors and the error_mul and
\* weight_mul of causal_snapshot are strictly greater than 0, for every
\* payload
C15_MultipliersPositive ==
    /\ (call.fn = "evaluate_factors" /\ ~call.out.raised)
         => /\ \A i \in DOMAIN call.out.value.items :
                 InUnit(call.out.value.items[i].score)
                   => /\ Positive(call.out.value.items[i].error_mul)
                      /\ Positive(call.out.value.items[i].weight_mul)
            /\ Positive(call.out.value.aggregate.error_mul)
            /\ Positive(call.out.value.aggregate.weight_mul)
    /\ call.fn = "causal_snapshot"
         => /\ Positive(call.out.value.error_mul)
            /\ Positive(call.out.value.weight_mul)

\* A is the best tier
TierRank(tier) ==
    CASE tier = "A" -> 1 [] tier = "B" -> 2 [] tier = "C" -> 3 [] tier = "D" -> 4

\* the ladder of thresholds 0.8, 0.6, 0.4 on one score with its tier and
\* priority
OnLadder(s, tier, priority) ==
    /\ (tier = "A" /\ priority = 1) <=> FGe(s, Lit(800000))
    /\ (tier = "B" /\ priority = 2) <=> (FGe(s, Lit(600000)) /\ FLt(s, Lit(800000)))
    /\ (tier = "C" /\ priority = 3) <=> (FGe(s, Lit(400000)) /\ FLt(s, Lit(600000)))
    /\ (tier = "D" /\ priority \in {4, 5}) <=> FLt(s, Lit(400000))

\* C16: for every score s in [0, 1], tier and priority follow one ladder
\* (A and 1 iff s >= 0.8, B and 2 iff 0.6 <= s < 0.8, C and 3 iff
\* 0.4 <= s < 0.6, D and 4 or 5 iff s < 0.4), also on the score the scorer
\* returns, and no higher score has a worse tier or a larger priority number
C16_TierAndPriorityLadder ==
    /\ call.fn = "ladder"
         => /\ OnLadder(call.arg, call.out.value.tier, call.out.value.priority)
            /\ \A t \in ScoreGrid :
                 t >= call.arg.q
                   => /\ TierRank(tier_from_score(Float(t)))
                           <= TierRank(call.out.value.tier)
                      /\ priority_from_score(Float(t)) <= call.out.value.priority
    /\ (call.fn = "score" /\ ~call.out.raised /\ InUnit(call.out.value.score))
         => OnLadder(call.out.value.score, call.out.value.tier,
                     call.out.value.priority)

\* the ladder was applied to the threshold 0.6, the lowest score of tier B
C16_Witness ==
    /\ call.fn = "ladder"
    /\ call.arg = Lit(600000)
    /\ call.out.value = [tier |-> "B", priority |-> 2]

\* the payload of the specification's end-to-end example
ExamplePayload ==
    Dict([games_7d |-> Num(6), avg_rest_day |-> Num(2), phase |-> Str(CRITICAL),
          key_absent |-> Num(2), total_absent |-> Num(4),
          red_rate |-> Float(300000), penalty_rate |-> Float(100000),
          late_swap |-> PyBool(TRUE), hype_score |-> Absent,
          derby_strength |-> Absent, S |-> Num(3), odds_deviation |-> Absent])

\* causal_snapshot returned for the example payload
OnExample == call.fn = "causal_snapshot" /\ call.arg.payload = ExamplePayload

\* C17 as stated: for the example payload, evaluate_factors followed by
\* causal_snapshot yields an adjusted_error strictly greater than p0 and at
\* most 3 drivers
C17_ExampleRaisesError ==
    OnExample
        => /\ FGt(call.out.value.adjusted_error, call.out.value.p0)
           /\ Len(call.out.value.drivers) <= 3

\* C17 amended: for the example payload the total error multiplier is below
\* 1 (injuries and the social factor lower the error by more than schedule
\* density and the referee raise it), so adjusted_error is strictly less
\* than p0; the drivers list has at most 3 entries
C17_ExampleLowersError ==
    OnExample
        => /\ FLt(call.out.value.error_mul, Float(ONE))
           /\ FLt(call.out.value.adjusted_error, call.out.value.p0)
           /\ Len(call.out.value.drivers) <= 3

\* the example with the default p0: multiplier 0.8193, adjusted error
\* 0.01721, three drivers led by injuries
C17_Witness ==
    /\ OnExample
    /\ call.arg.p0 = Lit(21000)
    /\ call.out.value.error_mul = Lit(819300)
    /\ call.out.value.adjusted_error = Lit(17210)
    /\ Len(call.out.value.drivers) = 3
    /\ call.out.value.drivers[1].name = "injuries"

\* clamp01 on millionths
ClampQ(q) == IF q < 0 THEN 0 ELSE IF q > ONE THEN ONE ELSE q

\* the number of a field in millionths, and whether the field is a number
\* other than NaN
FieldQ(p, k) == ToFloat(Get(p, k, PyNone)).q

HasNumber(p, k) == Get(p, k, PyNone).t \in {"int", "bool", "float"}

\* the six terms of the player score as the specification lists them, in
\* millionths: position base, starter bonus, market-value step, 0.15 times
\* the minutes ratio, jersey bonus, key-player bonus
ClaimedPlayerSum(p) ==
    LET pos == Get(p, "position", PyNone)
        jersey == Get(p, "jersey_no", PyNone)
        base == IF pos.t # "str" THEN 500000
                ELSE IF pos.s \in {<<"F">>, <<"f">>} THEN 700000
                ELSE IF pos.s \in {<<"M">>, <<"m">>} THEN 600000
                ELSE IF pos.s \in {<<"D">>, <<"d">>} THEN 550000
                ELSE 500000
        starterBonus ==
                IF HasNumber(p, "starter_prob")
                THEN (3 * ClampQ(FieldQ(p, "starter_prob"))) \div 10
                ELSE IF Get(p, "starter", PyNone) = PyBool(TRUE) THEN 200000
                ELSE 0
        marketValue ==
                IF ~HasNumber(p, "market_value_m") THEN 0
                ELSE IF FieldQ(p, "market_value_m") >= 80 * ONE THEN 200000
                ELSE IF FieldQ(p, "market_value_m") >= 40 * ONE THEN 120000
                ELSE IF FieldQ(p, "market_value_m") >= 20 * ONE THEN 70000
                ELSE IF FieldQ(p, "market_value_m") >= 5 * ONE THEN 30000
                ELSE 0
        minutes ==
                IF HasNumber(p, "minutes_rolling")
                THEN (15 * ClampQ(FieldQ(p, "minutes_rolling"))) \div 100
                ELSE 0
        jerseyBonus ==
                IF jersey \in {Str(<<"1", "0">>), Num(10), Str(<<"7">>), Num(7),
                               Str(<<"9">>), Num(9)} THEN 60000
                ELSE IF jersey \in {Str(<<"8">>), Num(8), Str(<<"1", "1">>),
                                    Num(11)} THEN 40000
                ELSE IF jersey \in {Str(<<"1">>), Num(1)} THEN 30000
                ELSE 0
        keyBonus == IF Get(p, "key_flag", PyNone) = PyBool(TRUE) THEN 100000 ELSE 0
    IN  base + starterBonus + marketValue + minutes + jerseyBonus + keyBonus

\* no field of the payload is NaN
NoNaNField(p) == \A k \in DOMAIN p : ~IsNaN(p[k])

Near(x, y, tol) ==
    IF IsNaN(x) \/ IsNaN(y) THEN x = y ELSE Abs(x.q - y.q) <= tol

\* the product of one multiplier over all the factor items of a snapshot
\* call, the upset item included
ProductOfItems(field) ==
    LET its == SnapshotItems(call.arg.factors, call.arg.payload)
    IN  Product(its, field, Len(its))

\* C19: the error_mul and weight_mul of causal_snapshot are the products of
\* the items' error_mul and weight_mul, the upset item included, and its
\* adjusted_error is p0 times the error product, each up to the final
\* rounding only: within half a unit of the last decimal kept, 0.00005 for
\* the multipliers and 0.000005 for the adjusted error
C19_SnapshotIsProductOfItems ==
    call.fn = "causal_snapshot"
        => /\ Near(call.out.value.error_mul, ProductOfItems("error_mul"), 50)
           /\ Near(call.out.value.weight_mul, ProductOfItems("weight_mul"), 50)
           /\ Near(call.out.value.adjusted_error,
                   FMul(call.arg.p0, ProductOfItems("error_mul")), 5)

\* the items of a snapshot call by name, and the impact of a named item
ItemNamed(name) ==
    LET its == SnapshotItems(call.arg.factors, call.arg.payload)
    IN  its[CHOOSE i \in DOMAIN its : its[i].name = name]

ItemNames ==
    LET its == SnapshotItems(call.arg.factors, call.arg.payload)
    IN  {its[i].name : i \in DOMAIN its}

\* C20: the drivers of causal_snapshot are min(3, number of items) distinct
\* items, the upset item among the candidates, in non-increasing order of
\* impact, and no item left out has a strictly greater impact than a listed
\* one
C20_DriversAreTopThree ==
    call.fn = "causal_snapshot"
        => LET drivers == call.out.value.drivers
               listed  == {drivers[r].name : r \in DOMAIN drivers}
           IN  /\ Len(drivers) = TopCount(SnapshotItems(call.arg.factors,
                                                       call.arg.payload))
               /\ listed \subseteq ItemNames
               /\ Cardinality(listed) = Len(drivers)
               /\ \A r \in 1..(Len(drivers) - 1) :
                    FGe(ImpactOf(ItemNamed(drivers[r].name)),
                        ImpactOf(ItemNamed(drivers[r + 1].name)))
               /\ \A out \in ItemNames \ listed : \A in \in listed :
                    ~FGt(ImpactOf(ItemNamed(out)), ImpactOf(ItemNamed(in)))

----------------------------------------------------------------------------
(* Claims on normalize as a merge *)

\* x == y of Python: numbers compare by value whatever their type
PyEq(x, y) ==
    \/ x = y /\ ~IsNaN(x)
    \/ /\ x.t \in {"int", "bool", "float"}
       /\ y.t \in {"int", "bool", "float"}
       /\ ToFloat(x).q = ToFloat(y).q

\* the payload holds the 14 canonical keys and none of the keys that mark a
\* source
CanonicalKeysOnly(p) ==
    /\ CanonKeys \subseteq DOMAIN p
    /\ "source" \notin DOMAIN p
    /\ \A r \in CanonRows : {r.af, r.crawler, r.manual} \cap DOMAIN p = {}
    /\ {"af_season_round", "season_phase", "zh_phase"} \cap DOMAIN p = {}

\* the value already has the form normalize gives its key: a float, a whole
\* number, a boolean, a lower-case phase
CanonicalValue(k, v) ==
    IF k = "phase" THEN v.t = "str" /\ v.s # <<>> /\ Lower(v.s) = v.s
    ELSE CASE RowOf(k).conv = "float"  -> v.t = "float"
           [] RowOf(k).conv = "int"    -> v.t = "int"
           [] RowOf(k).conv = "truthy" -> v.t = "bool"

C22_NormalizeKeepsInput ==
    (call.fn = "normalize" /\ ~call.out.raised)
        => \A k \in DOMAIN call.arg :
             k \in DOMAIN call.out.value /\ PyEq(call.out.value[k], call.arg[k])

----------------------------------------------------------------------------
(* Claims on the validation of ingest *)

\* Step 2 has validated every item and no conflict mark is applied yet
ValidationDone == pc = "scan_provider" /\ dc_i = 0

Oversize(it) == PayloadSize(it.payload) > PayloadLimit

\* C23 as stated: validation gives 'block' only to a payload of more than
\* 200,000 characters, with a message; every item whose payload is within
\* the ceiling is validated 'accepted' or 'warn'
C23_BlockOnlyWhenOversize ==
    ValidationDone
        => \A i \in 1..Len(items) :
             /\ results[i].status \in {ACCEPTED, WARN, BLOCK}
             /\ results[i].status = BLOCK <=> Oversize(items[i])
             /\ results[i].message # <<>>

\* C23 amended: validation gives 'block', with a message and without
\* raising, in exactly two cases, an empty payload and a payload of more
\* than 200,000 characters; every item with a non-empty payload within the
\* ceiling is validated 'accepted' or 'warn'
C23_BlockWhenEmptyOrOversize ==
    ValidationDone
        => \A i \in 1..Len(items) :
             /\ results[i].status \in {ACCEPTED, WARN, BLOCK}
             /\ results[i].status = BLOCK
                  <=> (Oversize(items[i]) \/ PayloadEmpty(items[i].payload))
             /\ results[i].message # <<>>

\* a batch with an empty payload, an oversize payload and one within the
\* ceiling has been validated
C23_Witness ==
    /\ ValidationDone
    /\ \E i, j, k \in 1..Len(items) :
         /\ PayloadEmpty(items[i].payload) /\ results[i].status = BLOCK
         /\ Oversize(items[j]) /\ results[j].status = BLOCK
         /\ ~PayloadEmpty(items[k].payload) /\ ~Oversize(items[k])
         /\ results[k].status = ACCEPTED

----------------------------------------------------------------------------
(* common/uid.py: detect_conflicts as one call *)

\* lines 64-66: the dictionaries a call of detect_conflicts starts with
EmptyScan == [by_provider |-> <<>>, by_name_bd |-> <<>>, marks |-> <<>>]

\* lines 68-93: one iteration of the loop
ScanOne(st, it) ==
    IF Scanned(it) THEN CheckNameBd(CheckProvider(st, it), it) ELSE st

RECURSIVE ScanAll(_, _)
ScanAll(st, its) ==
    IF its = <<>> THEN st ELSE ScanAll(ScanOne(st, Head(its)), Tail(its))

\* the marks the call returns for a list of items
detect_conflicts(its) == ScanAll(EmptyScan, its).marks

\* Steps 1 to 3 of ingest on a batch processed alone
IngestAlone(its) ==
    LET filled == [i \in 1..Len(its) |->
                     [its[i] EXCEPT !.entity_id = AssignEntityId(its[i])]]
        mk     == detect_conflicts(filled)
        rs     == CollectResults(filled)
    IN  [marks |-> mk,
         results |-> [i \in 1..Len(rs) |->
                        IF rs[i].entity_id \in DOMAIN mk
                        THEN ApplyTag(rs[i], mk[rs[i].entity_id]) ELSE rs[i]]]

----------------------------------------------------------------------------
(* api/dpc.py: two ingest requests served at the same time.  FastAPI runs  *)
(* the handler of each request in its own thread; the items, the results   *)
(* and the dictionaries of detect_conflicts are locals of that thread.     *)
(* Both requests are dry runs, so Step 4 inserts no row.                   *)

Requests == {1, 2}

\* the largest batch of a request of the pair
MaxPairItems == 2

PairPool ==
    { Item("player", PlrId("a"), PersonND(<<"s">>, <<"1">>), Conf),
      Item("player", PlrId("b"), PersonND(<<"s">>, <<"1">>), Conf),
      Item("player", PlrId("c"), PersonND(<<"S", " ">>, <<"2">>), Conf),
      Item("team", <<"t">>, PersonND(<<"s">>, <<"1">>), Conf) }

PairBatches == UNION {[1..n -> PairPool] : n \in 1..MaxPairItems}

\* a request as it enters the handler
Request(its) ==
    [batch |-> its, items |-> its, pc |-> "step1", results |-> <<>>, dc_i |-> 0,
     by_provider |-> <<>>, by_name_bd |-> <<>>, marks |-> <<>>,
     response |-> <<>>]

\* the dictionaries the scan of request r reads and writes, with every
\* dictionary shared by the two requests
TablesShared(rs, r) ==
    LET o == CHOOSE x \in Requests : x # r
        Merge(f, g) == [k \in (DOMAIN f) \cup (DOMAIN g) |->
                          IF k \in DOMAIN f THEN f[k] ELSE g[k]]
    IN  [by_provider |-> Merge(rs[r].by_provider, rs[o].by_provider),
         by_name_bd |-> Merge(rs[r].by_name_bd, rs[o].by_name_bd),
         marks |-> Merge(rs[r].marks, rs[o].marks)]

\* the dictionaries the scan of request r reads and writes: its own
TablesOf(rs, r) ==
    [by_provider |-> rs[r].by_provider, by_name_bd |-> rs[r].by_name_bd,
     marks |-> rs[r].marks]

InitPair ==
    /\ IngestIdle /\ uidA = NoCall /\ uidB = NoCall /\ call = NotCalled
    /\ bf = NoRun /\ http = NoRequest
    /\ \E a \in PairBatches, b \in PairBatches :
         reqs = [r \in Requests |-> Request(IF r = 1 THEN a ELSE b)]

PairStep1(r) ==
    /\ reqs[r].pc = "step1"
    /\ reqs' = [reqs EXCEPT
                  ![r].items = [i \in 1..Len(@) |->
                                  [reqs[r].items[i] EXCEPT
                                     !.entity_id = AssignEntityId(reqs[r].items[i])]],
                  ![r].pc = "step2"]
    /\ UNCHANGED <<ingestVars, uidA, uidB, call, bf, http>>

PairStep2(r) ==
    /\ reqs[r].pc = "step2"
    /\ reqs' = [reqs EXCEPT ![r].results = CollectResults(reqs[r].items),
                            ![r].pc = "scan_provider"]
    /\ UNCHANGED <<ingestVars, uidA, uidB, call, bf, http>>

PairScanSkip(r) ==
    /\ reqs[r].pc = "scan_provider"
    /\ reqs[r].dc_i < Len(reqs[r].items)
    /\ ~Scanned(reqs[r].items[reqs[r].dc_i + 1])
    /\ reqs' = [reqs EXCEPT ![r].dc_i = @ + 1]
    /\ UNCHANGED <<ingestVars, uidA, uidB, call, bf, http>>

PairScanProvider(r) ==
    /\ reqs[r].pc = "scan_provider"
    /\ reqs[r].dc_i < Len(reqs[r].items)
    /\ Scanned(reqs[r].items[reqs[r].dc_i + 1])
    /\ LET st == CheckProvider(TablesOf(reqs, r), reqs[r].items[reqs[r].dc_i + 1])
       IN  reqs' = [reqs EXCEPT ![r].by_provider = st.by_provider,
                                ![r].marks = st.marks,
                                ![r].pc = "scan_name"]
    /\ UNCHANGED <<ingestVars, uidA, uidB, call, bf, http>>

PairScanNameBd(r) ==
    /\ reqs[r].pc = "scan_name"
    /\ LET st == CheckNameBd(TablesOf(reqs, r), reqs[r].items[reqs[r].dc_i + 1])
       IN  reqs' = [reqs EXCEPT ![r].by_name_bd = st.by_name_bd,
                                ![r].marks = st.marks,
                                ![r].dc_i = @ + 1,
                                ![r].pc = "scan_provider"]
    /\ UNCHANGED <<ingestVars, uidA, uidB, call, bf, http>>

PairApplyMarks(r) ==
    /\ reqs[r].pc = "scan_provider"
    /\ reqs[r].dc_i = Len(reqs[r].items)
    /\ reqs' = [reqs EXCEPT
                  ![r].results = [i \in 1..Len(@) |->
                                    IF @[i].entity_id \in DOMAIN reqs[r].marks
                                    THEN ApplyTag(@[i], reqs[r].marks[@[i].entity_id])
                                    ELSE @[i]],
                  ![r].pc = "step5"]
    /\ UNCHANGED <<ingestVars, uidA, uidB, call, bf, http>>

\* Steps 4 and 5 of a dry run: nothing to insert, the response is built
PairReturn(r) ==
    /\ reqs[r].pc = "step5"
    /\ reqs' = [reqs EXCEPT
                  ![r].response = [ok |-> TRUE, overall |-> Overall(reqs[r].results),
                                   count |-> Len(reqs[r].results),
                                   results |-> reqs[r].results,
                                   dry_run |-> TRUE, inserted |-> 0],
                  ![r].pc = "done"]
    /\ UNCHANGED <<ingestVars, uidA, uidB, call, bf, http>>

NextPair ==
    \E r \in Requests :
        \/ PairStep1(r)
        \/ PairStep2(r)
        \/ PairScanSkip(r)
        \/ PairScanProvider(r)
        \/ PairScanNameBd(r)
        \/ PairApplyMarks(r)
        \/ PairReturn(r)

SpecPair == InitPair /\ [][NextPair]_vars

\* C24: conflict detection keeps no state across batches: whatever the
\* interleaving of two ingest requests, the marks and the per-item statuses of
\* each request are those of its batch processed alone, and every marked
\* entity_id belongs to an item of the request's own batch.
C24_BatchesDoNotInterfere ==
    \A r \in Requests :
        reqs[r].pc \in {"step5", "done"} =>
            /\ reqs[r].marks = IngestAlone(reqs[r].batch).marks
            /\ reqs[r].results = IngestAlone(reqs[r].batch).results
            /\ \A e \in DOMAIN reqs[r].marks :
                 \E i \in 1..Len(reqs[r].items) : reqs[r].items[i].entity_id = e

\* both requests have returned; the first holds plr_a and the second plr_b
\* under the same (provider, id): the first has no mark, the second only the
\* marks of the name match between its own two items
C24_Witness ==
    /\ reqs[1].pc = "done" /\ reqs[2].pc = "done"
    /\ reqs[1].batch = <<Item("player", PlrId("a"), PersonND(<<"s">>, <<"1">>), Conf)>>
    /\ reqs[2].batch = <<Item("player", PlrId("b"), PersonND(<<"s">>, <<"1">>), Conf),
                         Item("player", PlrId("c"), PersonND(<<"S", " ">>, <<"2">>), Conf)>>
    /\ reqs[1].marks = <<>>
    /\ DOMAIN reqs[2].marks = {PlrId("b"), PlrId("c")}

----------------------------------------------------------------------------
(* api/backfill.py: POST /admin/backfill-start.  The session is a          *)
(* transaction on two tables: rows inserted since the last commit are      *)
(* pending; commit moves them to the table, rollback drops them all.       *)
(* Every statement and every commit may fail with a database error.        *)

\* the size of a chunk (200 in the source; small here, so that a run of a
\* few events has more than one chunk)
BATCH == 2

\* the longest list of seasons of a request
MaxSeasons == 2

\* the most events the provider returns for one season
MaxEvents == 2

Year == <<"2", "0", "1", "5">>

SeasonPool == {Year, <<"x">>}

SeasonLists == UNION {[1..n -> SeasonPool] : n \in 0..MaxSeasons}

\* feature_runs holds no row of this run
NoRow == [status |-> "none", total |-> 0, ok |-> 0, fail |-> 0]

\* the handler on entry of the try block
Backfill(seasons) ==
    [pc |-> "run_start", seasons |-> seasons, k |-> 0, n |-> 0,
     total |-> 0, ok |-> 0, fail |-> 0, written_ids |-> <<>>,
     i |-> 0, pos |-> 0, wk |-> 0, ids |-> <<>>,
     pending |-> {}, table |-> {}, run |-> NoRow,
     finish_failed |-> FALSE, response |-> <<>>]

\* _run_start and the commit after it
RunStarted(row) ==
    IF row.status = "none"
    THEN [status |-> "running", total |-> 0, ok |-> 0, fail |-> 0]
    ELSE [row EXCEPT !.status = "running"]

\* _run_finish and the commit after it: an UPDATE of the run's row, if any
RunFinished(row, total, ok, fail) ==
    IF row.status = "none" THEN row
    ELSE [status |-> "finished", total |-> total, ok |-> ok, fail |-> fail]

\* the except branch that rolls back and raises, without the finishing update
ExceptRunRollbackOnly(b, up) == b.run

\* the run's row after the except branch; up: the finishing update and its
\* commit succeed (otherwise the inner except swallows the error)
ExceptRun(b, up) ==
    IF up THEN RunFinished(b.run, b.total, b.ok, b.total - b.ok) ELSE b.run

Least(a, b) == IF a < b THEN a ELSE b

\* the end of the chunk all_items[i:i + BATCH]
ChunkEnd(b) == Least(b.i + BATCH, b.total)

InitBackfill ==
    /\ IngestIdle /\ uidA = NoCall /\ uidB = NoCall /\ call = NotCalled
    /\ reqs = NoPair /\ http = NoRequest
    /\ \E seasons \in SeasonLists : bf = Backfill(seasons)

\* lines 182-183
BfRunStart ==
    /\ bf.pc = "run_start"
    /\ \E up \in BOOLEAN :
         bf' = IF up THEN [bf EXCEPT !.run = RunStarted(bf.run), !.pc = "fetch"]
               ELSE [bf EXCEPT !.pc = "except"]
    /\ UNCHANGED <<ingestVars, uidA, uidB, call, reqs, http>>

\* lines 188-220: one season; int(yyyy) raises on a text that is no number,
\* a failed request yields no event
BfFetch ==
    /\ bf.pc = "fetch"
    /\ bf.k < Len(bf.seasons)
    /\ IF IntRaises(Str(bf.seasons[bf.k + 1]))
       THEN bf' = [bf EXCEPT !.pc = "except"]
       ELSE \E e \in 0..MaxEvents : bf' = [bf EXCEPT !.n = @ + e, !.k = @ + 1]
    /\ UNCHANGED <<ingestVars, uidA, uidB, call, reqs, http>>

\* lines 222-227
BfTotal ==
    /\ bf.pc = "fetch"
    /\ bf.k = Len(bf.seasons)
    /\ bf' = [bf EXCEPT !.total = bf.n,
                        !.pc = IF bf.n > 0 THEN "insert" ELSE "finish"]
    /\ UNCHANGED <<ingestVars, uidA, uidB, call, reqs, http>>

\* _insert_features, one item: the row's id is the item's position
BfInsert ==
    /\ bf.pc = "insert"
    /\ bf.pos < ChunkEnd(bf)
    /\ \E inserted \in BOOLEAN :
         bf' = IF inserted
               THEN [bf EXCEPT !.pending = @ \cup {bf.pos + 1},
                               !.ids = Append(@, bf.pos + 1),
                               !.wk = @ + 1,
                               !.pos = @ + 1]
               ELSE [bf EXCEPT !.pending = {}, !.pos = @ + 1]
    /\ UNCHANGED <<ingestVars, uidA, uidB, call, reqs, http>>

\* lines 229-232: _insert_features returns, the counts are added, commit
BfCommit ==
    /\ bf.pc = "insert"
    /\ bf.pos = ChunkEnd(bf)
    /\ \E up \in BOOLEAN :
         bf' = IF up
               THEN [bf EXCEPT !.ok = @ + bf.wk,
                               !.written_ids = @ \o bf.ids,
                               !.table = @ \cup bf.pending,
                               !.pending = {},
                               !.wk = 0,
                               !.ids = <<>>,
                               !.i = @ + BATCH,
                               !.pc = IF bf.i + BATCH < bf.total
                                      THEN "insert" ELSE "finish"]
               ELSE [bf EXCEPT !.ok = @ + bf.wk,
                               !.written_ids = @ \o bf.ids,
                               !.pc = "except"]
    /\ UNCHANGED <<ingestVars, uidA, uidB, call, reqs, http>>

\* lines 234-247
BfFinish ==
    /\ bf.pc = "finish"
    /\ \E up \in BOOLEAN :
         bf' = IF up
               THEN [bf EXCEPT
                       !.fail = bf.total - bf.ok,
                       !.run = RunFinished(bf.run, bf.total, bf.ok, bf.total - bf.ok),
                       !.response =
                           [ok |-> TRUE, total |-> bf.total, ok_count |-> bf.ok,
                            fail_count |-> bf.total - bf.ok,
                            written_ids |->
                                SubSeq(bf.written_ids, 1,
                                       Least(10, Len(bf.written_ids)))],
                       !.pc = "returned"]
               ELSE [bf EXCEPT !.fail = bf.total - bf.ok, !.pc = "except"]
    /\ UNCHANGED <<ingestVars, uidA, uidB, call, reqs, http>>

\* lines 249-258: rollback, the finishing update as far as it goes, HTTP 500
BfExcept ==
    /\ bf.pc = "except"
    /\ \E up \in BOOLEAN :
         bf' = [bf EXCEPT !.pending = {},
                          !.run = ExceptRun(bf, up),
                          !.finish_failed = ~up,
                          !.pc = "failed"]
    /\ UNCHANGED <<ingestVars, uidA, uidB, call, reqs, http>>

NextBackfill ==
    \/ BfRunStart
    \/ BfFetch
    \/ BfTotal
    \/ BfInsert
    \/ BfCommit
    \/ BfFinish
    \/ BfExcept

SpecBackfill == InitBackfill /\ [][NextBackfill]_vars

\* the handler is sequential code and every step of it ends: the request to
\* the provider has a timeout, a database call returns or raises
SpecBackfillLive == SpecBackfill /\ WF_vars(NextBackfill)

\* C25: when backfill_start returns, ok_count is the number of rows of the
\* run in tool_features and the ids collected are the ids of these rows: no
\* row counted as ok is missing after a failed insert's rollback.
C25_OkCountIsPersistedRows ==
    bf.pc = "returned" =>
        /\ bf.ok = Cardinality(bf.table)
        /\ {bf.written_ids[j] : j \in 1..Len(bf.written_ids)} = bf.table

\* C26, as claimed: once the run's row is committed as 'running', the handler
\* always ends with the row committed as 'finished' with total = ok + fail.
C26_RunAlwaysFinished ==
    (bf.run.status = "running") ~>
        (bf.run.status = "finished" /\ bf.run.total = bf.run.ok + bf.run.fail)

\* C26: once the run's row is committed as 'running', the handler ends with
\* the row committed as 'finished' with total = ok + fail, on a normal return
\* and after a failure of a fetch or a commit alike, unless the finishing
\* update of the except branch fails too: then the row stays 'running'.
C26_RunFinishedUnlessUpdateFails ==
    (bf.run.status = "running") ~>
        \/ bf.run.status = "finished" /\ bf.run.total = bf.run.ok + bf.run.fail
        \/ bf.pc = "failed" /\ bf.finish_failed

\* the second season is no number: the handler has failed after the row was
\* committed as 'running', and the except branch has finished the row
C26_Witness ==
    /\ bf.pc = "failed"
    /\ bf.seasons = <<Year, <<"x">>>>
    /\ bf.run = [status |-> "finished", total |-> 0, ok |-> 0, fail |-> 0]

----------------------------------------------------------------------------
(* worker/worker.py: _http_get and _http_post_json.  RETRY_TIMES is read   *)
(* from the environment with int(), so it is any whole number.             *)

\* the largest configured RETRY_TIMES of the model (the default is 3)
MaxRetry == 3

RetryValues == (0 - 1)..MaxRetry

Statuses == {200, 429, 500, 503}

\* the statuses the loop answers with a sleep and another request
Retried(fn) == IF fn = "_http_get" THEN {429} ELSE {429, 503}

\* the local r before the first assignment
Unbound == 0 - 1

\* what a call ends with: a response, or an exception
Pending == [kind |-> "none", status |-> Unbound]

Response(status) == [kind |-> "response", status |-> status]

Raised(exception) == [kind |-> exception, status |-> Unbound]

\* a call on entry
HttpCall(fn, retry_times) ==
    [fn |-> fn, RETRY_TIMES |-> retry_times, pc |-> "loop", i |-> 0,
     r |-> Unbound, sent |-> <<>>, slept |-> <<>>, out |-> Pending]

InitHttp ==
    /\ IngestIdle /\ uidA = NoCall /\ uidB = NoCall /\ call = NotCalled
    /\ reqs = NoPair /\ bf = NoRun
    /\ \E fn \in {"_http_get", "_http_post_json"}, n \in RetryValues :
         http = HttpCall(fn, n)

\* lines 55-61: one pass of the loop, the request answered with a status
HttpSend ==
    /\ http.pc = "loop"
    /\ http.i < http.RETRY_TIMES
    /\ \E status \in Statuses :
         http' = IF status \in Retried(http.fn)
                 THEN [http EXCEPT !.r = status,
                                   !.sent = Append(@, status),
                                   !.slept = Append(@, 2 + http.i),
                                   !.i = @ + 1]
                 ELSE [http EXCEPT !.r = status,
                                   !.sent = Append(@, status),
                                   !.pc = "returned",
                                   !.out = Response(status)]
    /\ UNCHANGED <<ingestVars, uidA, uidB, call, reqs, bf>>

\* line 56: the request times out or fails to connect, requests raises
HttpError ==
    /\ http.pc = "loop"
    /\ http.i < http.RETRY_TIMES
    /\ http' = [http EXCEPT !.pc = "raised", !.out = Raised("RequestException")]
    /\ UNCHANGED <<ingestVars, uidA, uidB, call, reqs, bf>>

\* line 62: the loop is exhausted; r is read, assigned or not
HttpExhausted ==
    /\ http.pc = "loop"
    /\ http.i >= http.RETRY_TIMES
    /\ http' = IF http.r = Unbound
               THEN [http EXCEPT !.pc = "raised", !.out = Raised("UnboundLocalError")]
               ELSE [http EXCEPT !.pc = "returned", !.out = Response(http.r)]
    /\ UNCHANGED <<ingestVars, uidA, uidB, call, reqs, bf>>

NextHttp ==
    \/ HttpSend
    \/ HttpError
    \/ HttpExhausted

SpecHttp == InitHttp /\ [][NextHttp]_vars

\* C27: for every configured RETRY_TIMES, a call whose requests are all
\* answered ends by returning a response, after at most RETRY_TIMES requests:
\* the first response whose status is not retried (429, and 503 for
\* _http_post_json), or the last response after RETRY_TIMES retried ones.
C27_RetryReturnsResponse ==
    (http.pc \in {"returned", "raised"} /\ http.out # Raised("RequestException")) =>
        /\ http.pc = "returned"
        /\ Len(http.sent) >= 1
        /\ Len(http.sent) <= http.RETRY_TIMES
        /\ http.out = Response(http.sent[Len(http.sent)])
        /\ \A j \in 1..(Len(http.sent) - 1) : http.sent[j] \in Retried(http.fn)
        /\ \/ http.sent[Len(http.sent)] \notin Retried(http.fn)
           \/ Len(http.sent) = http.RETRY_TIMES

----------------------------------------------------------------------------
(* Claims on detect_conflicts as a function of the batch *)

\* the orders the items of the batch can come in
Orders == {f \in [1..N -> 1..N] : \A i, j \in 1..N : i # j => f[i] # f[j]}

\* the batch in the order f
Reordered(f) == [i \in 1..N |-> items[f[i]]]

\* C28: the marks detect_conflicts returns do not depend on the order of the
\* items: every permutation of the batch yields the same marked entity_ids
\* with the same tag for each.
C28_MarksOrderIndependent ==
    MarksReturned =>
        \A f \in Orders : detect_conflicts(Reordered(f)) = marks

\* Step 1 generated the entity_id of item i (the request's id did not carry
\* the prefix of the item's kind)
Generated(i) ==
    Scanned(batch.items[i]) /\ items[i].entity_id # batch.items[i].entity_id

\* C29: a conflict is raised only between items of one kind: two items of
\* different kinds, each with the entity_id generated for its kind, are not
\* marked against each other, and a batch whose entity_ids were all generated
\* holds no block:provider_id_conflict mark.
C29_GeneratedIdsNeverBlocked ==
    MarksReturned =>
        /\ (\A i \in ScannedItems : Generated(i)) =>
               \A e \in DOMAIN marks : marks[e] # BLOCK_TAG
        /\ (/\ N = 2
            /\ Generated(1) /\ Generated(2)
            /\ items[1].entity_type # items[2].entity_type) => marks = <<>>

----------------------------------------------------------------------------
(* api/predict.py: steps 4 to 7 of predict, on the snapshot of step 3.     *)
(* Inside predict a probability is a whole number of units of 10^-8, two   *)
(* digits more than the millionths of the other floats, so that the        *)
(* rounding of the response to four places is decided by the value and not *)
(* by the rounding of the steps before it.                                 *)

\* 1.0 in units of 10^-8
UNIT == 100000000

\* TeamInput.rating: absent, or a float in [0, 1] (the field validator)
Ratings == {PyNone, Float(0), Float(300000), Float(500000), Float(800000),
            Float(ONE)}

\* the ratings of the two teams of a request
RatingPairs ==
    { <<PyNone, PyNone>>, <<Float(800000), Float(300000)>>,
      <<Float(300000), Float(800000)>>, <<Float(ONE), Float(0)>>,
      <<PyNone, Float(ONE)>>, <<Float(500000), Float(300000)>> }

\* math.exp(3.0 * a) at the ratings of the model, in millionths
Exp3(a) ==
    CASE a = Float(0)      -> 1000000
      [] a = Float(300000) -> 2459603
      [] a = Float(500000) -> 4481689
      [] a = Float(800000) -> 11023176
      [] a = Float(ONE)    -> 20085537

\* the digits of r / s after the point, d of them, the last one rounded
RECURSIVE Frac(_, _, _)
Frac(r, s, d) ==
    IF d = 0 THEN (IF 2 * r >= s THEN 1 ELSE 0)
    ELSE ((10 * r) \div s) * Pow10(d - 1) + Frac((10 * r) % s, s, d - 1)

\* a / s of two naturals, s > 0, in units of 10^-8
Ratio(a, s) == (a \div s) * UNIT + Frac(a % s, s, 8)

\* a * b of two naturals in units of 10^-8, in parts that stay below 2^31
MulUnit(a, b) ==
    LET ah == a \div 10000
        al == a % 10000
        bh == b \div 10000
        bl == b % 10000
        m  == ah * bl + al * bh
    IN  ah * bh + m \div 10000
          + ((m % 10000) * 10000 + al * bl + UNIT \div 2) \div UNIT

\* lines 61-67
softmax_2(a, b) ==
    LET ea == Exp3(a)
        eb == Exp3(b)
    IN  [sa |-> Ratio(ea, ea + eb), sb |-> Ratio(eb, ea + eb)]

\* lines 87-88: a rating that is None counts as 0.5
RatingOf(rating) == IF rating # PyNone THEN rating ELSE Float(500000)

\* lines 95-97: conf = max(0.0, min(1.0, 1.0 - K * adj_err)) with K = 8.0
Confidence(adj_err) ==
    FMax(Float(0),
         FMin(Float(ONE),
              IF IsNaN(adj_err) THEN NaN ELSE Float(ONE - 8 * adj_err.q)))

\* lines 99-100, p and the result in units of 10^-8, c a float
shrink(p, c) ==
    LET d == p - UNIT \div 2
    IN  UNIT \div 2 + Sign(d) * MulUnit(c.q * 100, Abs(d))

\* round(p, 4) of a probability in units of 10^-8, as a float
Round4(p) == Float(((p + 5000) \div 10000) * 100)

\* lines 89-109 and 135-138: the probabilities and the confidence of the
\* response
Probabilities(home, away, adj_err) ==
    LET base   == softmax_2(RatingOf(home), RatingOf(away))
        conf   == Confidence(adj_err)
        p_home == shrink(base.sa, conf)
        p_away == shrink(base.sb, conf)
        rest   == UNIT - (p_home + p_away)
        p_draw == IF rest > 0 THEN rest ELSE 0
        s      == p_home + p_away + p_draw
    IN  [home_prob |-> Round4(Ratio(p_home, s)),
         draw_prob |-> Round4(Ratio(p_draw, s)),
         away_prob |-> Round4(Ratio(p_away, s)),
         confidence |-> Round(conf, 3)]

MATCH == <<"m", "a", "t", "c", "h">>

\* PredictInput.payload: fields in the spelling of a manual source, absent
\* or of the example, and values float() reads as NaN or lower() rejects
PredictPayloads ==
    { Dict([games_7d |-> games_7d, phase |-> phase, key_absent |-> key_absent,
            odds_deviation |-> odds, source |-> source]) :
        games_7d \in {Absent, Num(6), Str(NaNText)},
        phase \in {Absent, Str(CRITICAL)},
        key_absent \in {Absent, Num(2)},
        odds \in {Absent, Float(250000)},
        source \in {Absent, Num(1)} }

\* PredictInput.p0: the default 0.021 and two other baselines
PredictP0 == {Lit(21000), Lit(50000), Lit(200000)}

\* lines 132-145: the response without advice, edge and upset_index
PredictResponse(home, away, imp, snapshot) ==
    LET pr == Probabilities(home, away, snapshot.adjusted_error)
    IN  [home_prob |-> pr.home_prob, draw_prob |-> pr.draw_prob,
         away_prob |-> pr.away_prob, confidence |-> pr.confidence,
         importance |-> imp, adjusted_error |-> snapshot.adjusted_error]

\* POST /predict: normalize, importance, factors, snapshot, probabilities
CallPredict ==
    /\ call = NotCalled
    /\ \E ratings \in RatingPairs, body \in PredictPayloads, p0 \in PredictP0 :
         LET arg == [home |-> ratings[1], away |-> ratings[2],
                     payload |-> body, p0 |-> p0]
         IN  IF normalizeRaises(body)
             THEN call' = [fn |-> "predict", arg |-> arg, out |-> Raise]
             ELSE LET payload == normalize(body)
                  IN  IF evaluate_factorsRaises(payload)
                      THEN call' = [fn |-> "predict", arg |-> arg, out |-> Raise]
                      ELSE \E snapshot \in
                               causal_snapshot(evaluate_factors(payload), payload, p0) :
                             call' = [fn |-> "predict", arg |-> arg,
                                      out |-> Return(PredictResponse(
                                                 ratings[1], ratings[2],
                                                 score(MATCH, payload), snapshot))]
    /\ UNCHANGED <<ingestVars, uidA, uidB, sideVars>>

\* the adjusted errors a response is compared with: none, the baseline 0.021,
\* and larger ones up to the error that leaves no confidence
OtherErrors == {Float(0), Float(21000), Float(50000), Float(100000), Float(125000)}

\* the three probabilities of a response are in [0, 1] and sum to 1
IsDistribution(out) ==
    /\ InUnit(out.home_prob) /\ InUnit(out.draw_prob) /\ InUnit(out.away_prob)
    /\ out.home_prob.q + out.draw_prob.q + out.away_prob.q = ONE

\* C30: home.prob, draw_prob and away.prob of the response are each in [0, 1]
\* and sum to 1, and for the same ratings a response of lower confidence
\* (conf < 1) has a strictly higher draw_prob than one of higher confidence.
C30_DrawGrowsWithUncertainty ==
    (call.fn = "predict" /\ ~call.out.raised) =>
        /\ IsDistribution(call.out.value)
        /\ \A e \in OtherErrors :
             LET other == Probabilities(call.arg.home, call.arg.away, e)
             IN  (FLt(call.out.value.confidence, other.confidence)
                  /\ FLt(call.out.value.confidence, Float(ONE)))
                 => FGt(call.out.value.draw_prob, other.draw_prob)

NextCall ==
    \/ CallAssignEntityId
    \/ CallDetectConflicts
    \/ CallNormalize
    \/ CallNormalizeAgain
    \/ CallFactor
    \/ CallEvaluateFactors
    \/ CallScore
    \/ CallLadder
    \/ CallCausalSnapshot
    \/ CallPredict

SpecCall == InitCall /\ [][NextCall]_vars

====
